---- MODULE Spec2Model ----
(***************************************************************************)
(* The websocket shell bridge of package shell (WebsocketShell): one       *)
(* session with its Reader, its Writer, the Responders started by          *)
(* `go wss.respond()` and the per-stream reader goroutines of pipe().      *)
(* A step ends at an access to shared state (wss.proc, wss.send, the byte   *)
(* and error channels), so that the goroutines interleave as the Go        *)
(* scheduler lets them; the statements on goroutine-local state that       *)
(* follow it belong to the same step.  A send on the unbuffered wss.send   *)
(* completes in the step in which the Writer receives the frame.           *)
(*                                                                         *)
(* Further sections model the driver registry of package volume, the       *)
(* TCPMux and the ProxyLoop of package proxy, the host registry listener   *)
(* of package service with the outage timers of its Spawn goroutine, and   *)
(* the ServiceCache of package node.  Each has its own next-state relation *)
(* and specification, under which the state of the other sections is at    *)
(* rest.                                                                   *)
(***************************************************************************)
EXTENDS Integers, Sequences, FiniteSets, TLC

\* ------------------------------------------------------------------ bounds
\* Number of requests the client sends before the transport fails.
MaxReq == 2
\* Number of requests read plus number of bytes the children write to their
\* output streams, in one session.
MaxWork == 3
\* Number of reads of a child's stream that fail with an error other than io.EOF.
MaxFault == 1
\* Number of connections the listener of the TCPMux accepts.
MaxConn == 3
\* Number of changes made to the nodes of the coordinator.
MaxChange == 3
\* Number of bytes one io.Copy of a broker reports.
MaxCopy == 1
\* The time the timers of a Spawn goroutine are followed for.
MaxTime == 5
\* Number of definitions of one service the master hands out over time.
MaxVersion == 2

\* ------------------------------------------------------- program constants
FORK == "FORK"
OPEN == "OPEN"
EXEC == "EXEC"
RESIZE == "RESIZE"
SIGNAL == "SIGNAL"
\* capacity of the byte channel made by pipe()
BChanCap == 1024

LF == "\n"
Bytes == {"a", LF}
\* io.EOF and any other error a Read can return
EOFErr == "EOF"
OtherErr == "ERR"

\* the nil value of the interface field wss.proc
NilProc == 0
\* the Reader as a producer on wss.send; Responder r is producer r
ReaderId == 0
RespIds == 1..MaxReq
ChildIds == 1..MaxReq
Producers == {ReaderId} \cup RespIds
StreamNames == {"out", "err"}

\* type request; only Action and Argv decide the control flow, and Argv is
\* read only for FORK and EXEC.  Argv is absent, or holds one token.
Actions == {"", FORK, OPEN, EXEC, RESIZE, SIGNAL, "OTHER"}
Requests ==
    {[Action |-> a, Argv |-> << >>] : a \in Actions}
    \cup {[Action |-> a, Argv |-> <<"x">>] : a \in {FORK, EXEC}}
NoRequest == [Action |-> "", Argv |-> << >>]

\* type response.  Timestamp is 1 when set from time.Now().Unix() and 0 when
\* left at the zero value; path records which statement built the frame.
response(ts, stdin, stdout, stderr, result, path) ==
    [Timestamp |-> ts, Stdin |-> stdin, Stdout |-> stdout, Stderr |-> stderr,
     Result |-> result, path |-> path]
ResultFrame(msg, path) == response(1, << >>, << >>, << >>, msg, path)

\* strings.Join(a, " ") over tokens that are single characters
RECURSIVE Join(_)
Join(a) ==
    IF Len(a) = 0 THEN << >>
    ELSE IF Len(a) = 1 THEN <<a[1]>>
    ELSE <<a[1], " ">> \o Join(Tail(a))

VARIABLES
    proc,        \* wss.proc: NilProc or the id of the adopted child
    sendClosed,  \* close(wss.send) has run
    wsClosed,    \* wss.ws.Close() has run
    crashed,     \* "" while the process runs, else the panic that ended it
    pending,     \* pending[p]: the frame producer p is blocked sending on wss.send
    posted,      \* posted[p]: number of frames p has sent on wss.send
    written,     \* written[p]: number of frames of p the Writer wrote to the transport
    lastWrite,   \* the producer and number of the frame last written
    readerPc, req, nReq,   \* the Reader: position, request being dispatched, requests read
    writerPc,    \* the Writer: "run" or "done"
    nResp,       \* number of `go wss.respond()` executed
    respPc, eof, buf, panicking,   \* per Responder
    waitErr,     \* waitErr[r]: what wss.proc.Wait() returned to Responder r
    pipePc, pipeSrc, bchan,        \* per Responder and stream
    nChild, nilStderr, wrote, streamEOF, closeCount, waitCount, \* per child
    nBytes,      \* number of bytes the children have written so far
    nFault,      \* number of reads that failed with an error other than io.EOF
    emitted,     \* emitted[r][s]: bytes Responder r has sent in frames of stream s
    balance      \* adopted children minus executions of `wss.proc = nil`

\* package volume
VARIABLES
    drivers,        \* map name -> DriverInit
    driversByRoot,  \* map cleaned root -> Driver
    volErr,         \* the error the last call of the package returned
    resized         \* the root of the driver whose Resize ran last, << >> if none

\* package proxy, one TCPMux
VARIABLES
    muxListener,     \* the listener: "none" before NewTCPMux, "open" or "closed"
    muxErr,          \* the error NewTCPMux returned
    muxClosing,      \* close(mux.closing) has run
    muxConnections,  \* mux.connections: "open", "closed", or "nil" (the field was cleared)
    loopPc,          \* mux.loop()
    acceptorPc,      \* mux.acceptor()
    nConn,           \* connections the listener has accepted
    connPc           \* per accepted connection

\* package service: one HostRegistryListener, the coordinator, one call of
\* GetRegisteredHosts at a time
VARIABLES
    zk,           \* zk[h]: the nodes of host h in the coordinator
    nChange,      \* changes made to the nodes so far
    spawnPc,      \* spawnPc[h]: the goroutine of Spawn(cancel, h)
    spawnCancel,  \* the cancel channel of the Spawn goroutines is closed
    grhPc,        \* GetRegisteredHosts
    grhTodo,      \* the ids the running loop of the call has yet to visit
    grhOnline,    \* onlineHosts of GetCurrentHosts
    grhHosts,     \* hosts
    grhRet,       \* what the last call returned
    grhCancel     \* the cancel channel of the call is closed

\* package proxy, one call of ProxyLoop(client, backend, quit)
VARIABLES
    plPc,           \* ProxyLoop
    plI,            \* i
    transferred,    \* transferred
    brokerPc,       \* brokerPc[b]: the goroutine of broker b
    brokerWritten,  \* brokerWritten[b]: written, what io.Copy returned to broker b
    connClosed,     \* connClosed[c]: Close() was called on connection c
    quit            \* a receive from quit is ready

\* package service: the timers of one Spawn goroutine, for the host it watches
VARIABLES
    clock,      \* the time
    hostUp,     \* the node "online" of the host has a child
    downSince,  \* the time the host went offline last
    changed,    \* the host changed its status at this time
    evReady,    \* the watch ev of the last ChildrenW has fired
    outPc,      \* the Spawn goroutine
    isOnline,   \* isOnline
    timerT,     \* t: armed, at what time it expires, a value is in t.C
    timerQt     \* qt, likewise

\* package node: one ServiceCache and the master
VARIABLES
    cache,      \* sc.cache: map key -> cachedService
    scRet,      \* what the last call of GetEvaluatedService returned
    contacted,  \* the last call of GetEvaluatedService turned to the master
    lastFetch   \* lastFetch[p]: what the last fetch for the pair p stored, if
                \* Invalidate was not called for p since

chanVars == <<pending, posted, written, lastWrite>>
readerVars == <<readerPc, req, nReq>>
respVars == <<nResp, respPc, eof, buf, panicking, waitErr>>
pipeVars == <<pipePc, pipeSrc, bchan>>
childVars == <<nChild, nilStderr, wrote, streamEOF, closeCount, waitCount, nBytes, nFault>>
ghostVars == <<emitted, balance>>
shellVars == <<proc, sendClosed, wsClosed, crashed, chanVars, readerVars, writerPc,
               respVars, pipeVars, childVars, ghostVars>>
volumeVars == <<drivers, driversByRoot, volErr, resized>>
muxVars == <<muxListener, muxErr, muxClosing, muxConnections, loopPc, acceptorPc,
             nConn, connPc>>
registryVars == <<zk, nChange, spawnPc, spawnCancel, grhPc, grhTodo, grhOnline,
                  grhHosts, grhRet, grhCancel>>
proxyVars == <<plPc, plI, transferred, brokerPc, brokerWritten, connClosed, quit>>
\* the state outside the websocket shell
outageVars == <<clock, hostUp, downSince, changed, evReady, outPc, isOnline,
                timerT, timerQt>>
cacheVars == <<cache, scRet, contacted, lastFetch>>
otherVars == <<volumeVars, muxVars, registryVars, proxyVars, outageVars, cacheVars>>
notVolumeVars == <<shellVars, muxVars, registryVars, proxyVars, outageVars, cacheVars>>
notMuxVars == <<shellVars, volumeVars, registryVars, proxyVars, outageVars, cacheVars>>
notRegistryVars == <<shellVars, volumeVars, muxVars, proxyVars, outageVars, cacheVars>>
notProxyVars == <<shellVars, volumeVars, muxVars, registryVars, outageVars, cacheVars>>
notOutageVars == <<shellVars, volumeVars, muxVars, registryVars, proxyVars, cacheVars>>
notCacheVars == <<shellVars, volumeVars, muxVars, registryVars, proxyVars, outageVars>>
vars == <<shellVars, otherVars>>

ConnIds == 1..MaxConn

\* a Go map with no entry
EmptyMap == [k \in {} |-> 0]

\* func init() of package volume: two empty maps
VolumeInit ==
    /\ drivers = EmptyMap
    /\ driversByRoot = EmptyMap
    /\ volErr = "nil"
    /\ resized = << >>

\* no TCPMux has been created yet
MuxInit ==
    /\ muxListener = "none"
    /\ muxErr = "nil"
    /\ muxClosing = FALSE
    /\ muxConnections = "open"
    /\ loopPc = "none"
    /\ acceptorPc = "none"
    /\ nConn = 0
    /\ connPc = [c \in ConnIds |-> "none"]

\* the two brokers of ProxyLoop: broker(client, backend), broker(backend, client)
Brokers == {1, 2}
Conns == {"client", "backend"}

\* ProxyLoop has not been called
ProxyInit ==
    /\ plPc = "none"
    /\ plI = 0
    /\ transferred = 0
    /\ brokerPc = [b \in Brokers |-> "none"]
    /\ brokerWritten = [b \in Brokers |-> 0]
    /\ connClosed = [c \in Conns |-> FALSE]
    /\ quit = FALSE

\* the ConnectionTimeout of the pool, as getTimeout() returns it, and h.qtime
Timeout == 2
QTime == 1

\* time.NewTimer(d): the timer expires d from now, its channel is empty
NewTimer(d) == [armed |-> TRUE, at |-> d, c |-> FALSE]

\* Spawn has returned from waitOnline and made its timers: t := time.NewTimer(
\* h.getTimeout()), isOnline := false, qt := time.NewTimer(h.qtime)
OutageInit ==
    /\ clock = 0
    /\ hostUp = TRUE
    /\ downSince = 0
    /\ changed = FALSE
    /\ evReady = FALSE
    /\ outPc = "check"
    /\ isOnline = FALSE
    /\ timerT = NewTimer(Timeout)
    /\ timerQt = NewTimer(QTime)

\* service ids, as sequences of characters, and instance ids
ServiceIDs == {<<"a">>, <<"a", "-", "1">>}
InstanceIDs == {0, 1}
Pairs == ServiceIDs \X InstanceIDs
\* the zero cachedService
NoItem == [Service |-> << >>, TenantID |-> "", ServiceNamePath |-> ""]

\* NewServiceCache: an empty cache
CacheInit ==
    /\ cache = EmptyMap
    /\ scRet = [item |-> NoItem, err |-> "none"]
    /\ contacted = FALSE
    /\ lastFetch = [p \in Pairs |-> NoItem]

\* the hosts of the pool
Hosts == {"h1", "h2"}
\* GetRegisteredHosts has not returned
NoRet == [hosts |-> << >>, err |-> "none"]

\* every host has its node and is neither online nor locked; a Spawn
\* goroutine runs for every host; GetRegisteredHosts is not running
RegistryInit ==
    /\ zk = [h \in Hosts |-> [node |-> TRUE, online |-> "none", locked |-> FALSE]]
    /\ nChange = 0
    /\ spawnPc = [h \in Hosts |-> "start"]
    /\ spawnCancel = FALSE
    /\ grhPc = "idle"
    /\ grhTodo = << >>
    /\ grhOnline = << >>
    /\ grhHosts = << >>
    /\ grhRet = NoRet
    /\ grhCancel = FALSE

NoWrite == [prod |-> ReaderId, seq |-> 0]
NoBytes == [s \in StreamNames |-> << >>]
NoEOF == [s \in StreamNames |-> FALSE]

\* Connect(): no child, an open unbuffered queue, nothing started yet
Init ==
    /\ crashed = ""
    /\ proc = NilProc
    /\ sendClosed = FALSE
    /\ wsClosed = FALSE
    /\ pending = [p \in Producers |-> << >>]
    /\ posted = [p \in Producers |-> 0]
    /\ written = [p \in Producers |-> 0]
    /\ lastWrite = NoWrite
    /\ readerPc = "read"
    /\ req = NoRequest
    /\ nReq = 0
    /\ writerPc = "run"
    /\ nResp = 0
    /\ respPc = [r \in RespIds |-> "none"]
    /\ eof = [r \in RespIds |-> FALSE]
    /\ buf = [r \in RespIds |-> NoBytes]
    /\ panicking = {}
    /\ waitErr = [r \in RespIds |-> "none"]
    /\ pipePc = [r \in RespIds |-> [s \in StreamNames |-> "none"]]
    /\ pipeSrc = [r \in RespIds |-> [s \in StreamNames |-> NilProc]]
    /\ bchan = [r \in RespIds |-> NoBytes]
    /\ nChild = 0
    /\ nilStderr = {}
    /\ wrote = [c \in ChildIds |-> NoBytes]
    /\ streamEOF = [c \in ChildIds |-> NoEOF]
    /\ closeCount = [c \in ChildIds |-> 0]
    /\ waitCount = [c \in ChildIds |-> 0]
    /\ nBytes = 0
    /\ nFault = 0
    /\ emitted = [r \in RespIds |-> NoBytes]
    /\ balance = 0
    /\ VolumeInit
    /\ MuxInit
    /\ RegistryInit
    /\ ProxyInit
    /\ OutageInit
    /\ CacheInit

Running == crashed = ""

\* an unrecovered panic ends the process: no goroutine and no state is left,
\* only the reason why
Crash(why) ==
    /\ crashed' = why
    /\ proc' = NilProc
    /\ sendClosed' = FALSE
    /\ wsClosed' = FALSE
    /\ pending' = [p \in Producers |-> << >>]
    /\ posted' = [p \in Producers |-> 0]
    /\ written' = [p \in Producers |-> 0]
    /\ lastWrite' = NoWrite
    /\ readerPc' = "read"
    /\ req' = NoRequest
    /\ nReq' = 0
    /\ writerPc' = "run"
    /\ nResp' = 0
    /\ respPc' = [r \in RespIds |-> "none"]
    /\ eof' = [r \in RespIds |-> FALSE]
    /\ buf' = [r \in RespIds |-> NoBytes]
    /\ panicking' = {}
    /\ waitErr' = [r \in RespIds |-> "none"]
    /\ pipePc' = [r \in RespIds |-> [s \in StreamNames |-> "none"]]
    /\ pipeSrc' = [r \in RespIds |-> [s \in StreamNames |-> NilProc]]
    /\ bchan' = [r \in RespIds |-> NoBytes]
    /\ nChild' = 0
    /\ nilStderr' = {}
    /\ wrote' = [c \in ChildIds |-> NoBytes]
    /\ streamEOF' = [c \in ChildIds |-> NoEOF]
    /\ closeCount' = [c \in ChildIds |-> 0]
    /\ waitCount' = [c \in ChildIds |-> 0]
    /\ nBytes' = 0
    /\ nFault' = 0
    /\ emitted' = [r \in RespIds |-> NoBytes]
    /\ balance' = 0

\* `wss.send <- f` by producer p: p blocks until the Writer receives f.
\* seq numbers the frames of p in the order p sends them.
Send(p, f) ==
    /\ pending' = [pending EXCEPT ![p] = <<[frame |-> f, seq |-> posted[p] + 1]>>]
    /\ posted' = [posted EXCEPT ![p] = @ + 1]
    /\ UNCHANGED <<written, lastWrite>>

\* ------------------------------------------------------------------ Reader
\* ReadJSON fails (the peer closed, or wss.ws was closed): break, wss.ws.Close()
ReaderReadFail ==
    /\ Running
    /\ UNCHANGED otherVars
    /\ readerPc = "read"
    /\ readerPc' = "done"
    /\ wsClosed' = TRUE
    /\ UNCHANGED <<proc, sendClosed, crashed, chanVars, req, nReq,
                   writerPc, respVars, pipeVars, childVars, ghostVars>>

\* a switch that also takes RESIZE for a spawn action
SpawnActionsAndResize == {FORK, OPEN, EXEC, RESIZE}

SpawnActions == {FORK, OPEN, EXEC}
SpawnFailure(action) ==
    CASE action = FORK -> "unable to fork pty"
      [] action = OPEN -> "unable to open pty"
      [] OTHER -> "unable to run exec"

\* a BUSY switch that also handles FORK
BusyActionsAndFork == {RESIZE, SIGNAL, EXEC, FORK}

\* the cases of the switch of the BUSY branch
BusyActions == {RESIZE, SIGNAL, EXEC}

\* the guard of the IDLE branch: `if wss.proc == nil`
SlotIsNil == proc = NilProc

\* `go wss.respond()`: the next Responder starts at line 193
StartResponder ==
    /\ nResp' = nResp + 1
    /\ respPc' = [respPc EXCEPT ![nResp + 1] = "start"]

\* the factory succeeded: `wss.proc = term` (or cmd), then line 142.  An
\* OpenTerminal child may have no stderr handle.
Adopt(noStderr) ==
    /\ nChild' = nChild + 1
    /\ proc' = nChild + 1
    /\ nilStderr' = IF noStderr THEN nilStderr \cup {nChild + 1} ELSE nilStderr
    /\ balance' = balance + 1
    /\ StartResponder
    /\ readerPc' = "read"
    /\ UNCHANGED <<req, chanVars, wrote, streamEOF, closeCount, waitCount, nBytes, nFault,
                   emitted, eof, buf, panicking, waitErr>>

\* a validation that never asks for Argv
ArgvNotChecked(q) == FALSE

\* `if len(req.Argv) == 0` in the cases FORK and EXEC
MissingArgv(q) == q.Action \in {FORK, EXEC} /\ Len(q.Argv) = 0

\* the switch of the IDLE branch for request q
ReaderIdle(q) ==
    IF MissingArgv(q)
    THEN /\ Send(ReaderId, ResultFrame("missing required field 'Argv'", "reader"))
         /\ readerPc' = "sendContinue"
         /\ UNCHANGED <<proc, req, respVars, childVars, ghostVars>>
    ELSE IF q.Action \in SpawnActions
    THEN \E err \in BOOLEAN, noStderr \in BOOLEAN :
           IF err
           THEN /\ ~noStderr
                /\ Send(ReaderId, ResultFrame(SpawnFailure(q.Action), "reader"))
                /\ readerPc' = "sendGo"
                /\ UNCHANGED <<proc, req, respVars, childVars, ghostVars>>
           ELSE /\ noStderr => q.Action = OPEN
                /\ Adopt(noStderr)
    ELSE /\ Send(ReaderId, ResultFrame("no running process", "reader"))
         /\ readerPc' = "sendContinue"
         /\ UNCHANGED <<proc, req, respVars, childVars, ghostVars>>

\* a validation that lets every request through
NeverMissing(q) == FALSE

\* `if req.Action == ""`
MissingAction(q) == q.Action = ""

\* one iteration of the Reader loop, from ReadJSON to the branch on wss.proc:
\* request q is decoded, validated and, when the slot is nil, dispatched
ReaderRead(q) ==
    /\ Running
    /\ UNCHANGED otherVars
    /\ readerPc = "read"
    /\ ~wsClosed
    /\ nReq < MaxReq
    /\ nReq + nBytes < MaxWork
    /\ nReq' = nReq + 1
    /\ IF MissingAction(q)
       THEN /\ Send(ReaderId, ResultFrame("required field 'Action'", "reader"))
            /\ readerPc' = "sendContinue"
            /\ UNCHANGED <<proc, req, respVars, childVars, ghostVars>>
       ELSE IF SlotIsNil
       THEN ReaderIdle(q)
       ELSE \* BUSY: RESIZE, SIGNAL and EXEC go on to a call through wss.proc;
            \* any other action is ignored and the loop reads again
            /\ req' = IF q.Action \in BusyActions THEN q ELSE NoRequest
            /\ readerPc' = IF q.Action \in BusyActions THEN "busy" ELSE "read"
            /\ UNCHANGED <<proc, chanVars, respVars, childVars, ghostVars>>
    /\ UNCHANGED <<sendClosed, wsClosed, crashed, writerPc, pipeVars>>

\* the switch of the BUSY branch; each call reads wss.proc again, and a call
\* through a nil wss.proc panics
ReaderBusy ==
    /\ Running
    /\ UNCHANGED otherVars
    /\ readerPc = "busy"
    /\ IF proc = NilProc
       THEN Crash("nil wss.proc in Reader")
       ELSE /\ req' = NoRequest
            /\ IF req.Action = EXEC
               THEN \* tx(strings.Join(req.Argv, " "))
                    /\ \E err \in BOOLEAN :
                         IF err
                         THEN Send(ReaderId, ResultFrame("message failed to send", "reader"))
                         ELSE Send(ReaderId,
                                   response(1, Join(req.Argv), << >>, << >>, "", "echo"))
                    /\ readerPc' = "sendContinue"
               ELSE /\ readerPc' = "read"
                    /\ UNCHANGED chanVars
            /\ UNCHANGED <<proc, sendClosed, wsClosed, crashed, nReq, writerPc,
                           respVars, pipeVars, childVars, ghostVars>>

\* a send of the Reader returned: `continue`, or, after the frame of a failed
\* factory, the fall through to `go wss.respond()`
ReaderResume ==
    /\ readerPc' = "read"
    /\ IF readerPc = "sendGo"
       THEN StartResponder
       ELSE UNCHANGED <<nResp, respPc>>
    /\ UNCHANGED <<req, nReq, eof, buf, waitErr, pipeVars, wrote, streamEOF, emitted>>

\* --------------------------------------------------------------- Responder
\* a pipe() without the test for a nil reader
PipeStartRead(reader) == "read"

\* the goroutine of pipe(reader): a nil reader sends io.EOF at once
PipeStart(reader) == IF reader = NilProc THEN "sendEOF" ELSE "read"

\* the children whose streams no Responder other than r reads
Unread(r) ==
    {c \in ChildIds :
        /\ \E s \in StreamNames : pipeSrc[r][s] = c
        /\ \A r2 \in RespIds \ {r}, s \in StreamNames : pipeSrc[r2][s] # c}

\* respond() returns or panics: its deferred function closes the four
\* channels.  A reader goroutine that has not returned ("live") will send on
\* a closed channel.  The locals and channels of respond() are gone, and so is
\* the record of the streams it read.
Return(r) ==
    /\ respPc' = [respPc EXCEPT ![r] = "closeProc"]
    /\ pipePc' = [pipePc EXCEPT ![r] =
                    [s \in StreamNames |->
                        IF pipePc[r][s] \in {"read", "sendEOF", "sendERR"}
                        THEN "live" ELSE pipePc[r][s]]]
    /\ eof' = [eof EXCEPT ![r] = FALSE]
    /\ buf' = [buf EXCEPT ![r] = NoBytes]
    /\ bchan' = [bchan EXCEPT ![r] = NoBytes]
    /\ pipeSrc' = [pipeSrc EXCEPT ![r] = [s \in StreamNames |-> NilProc]]
    /\ emitted' = [emitted EXCEPT ![r] = NoBytes]
    /\ waitErr' = [waitErr EXCEPT ![r] = "none"]
    /\ wrote' = [c \in ChildIds |-> IF c \in Unread(r) THEN NoBytes ELSE wrote[c]]
    /\ streamEOF' = [c \in ChildIds |-> IF c \in Unread(r) THEN NoEOF ELSE streamEOF[c]]

\* line 193: stdoutMsg, stdoutErr = pipe(wss.proc.Stdout())
RespondStart(r) ==
    /\ Running
    /\ UNCHANGED otherVars
    /\ respPc[r] = "start"
    /\ IF proc = NilProc
       THEN Crash("nil wss.proc in respond")
       ELSE /\ pipeSrc' = [pipeSrc EXCEPT ![r]["out"] = proc]
            /\ pipePc' = [pipePc EXCEPT ![r]["out"] = PipeStart(proc)]
            /\ respPc' = [respPc EXCEPT ![r] = "start2"]
            /\ UNCHANGED <<proc, sendClosed, wsClosed, crashed, chanVars, readerVars,
                           writerPc, nResp, eof, buf, panicking, waitErr, bchan,
                           childVars,
                           ghostVars>>

\* line 194: stderrMsg, stderrErr = pipe(wss.proc.Stderr())
RespondStart2(r) ==
    /\ Running
    /\ UNCHANGED otherVars
    /\ respPc[r] = "start2"
    /\ IF proc = NilProc
       THEN Crash("nil wss.proc in respond")
       ELSE LET reader == IF proc \in nilStderr THEN NilProc ELSE proc IN
            /\ pipeSrc' = [pipeSrc EXCEPT ![r]["err"] = reader]
            /\ pipePc' = [pipePc EXCEPT ![r]["err"] = PipeStart(reader)]
            /\ respPc' = [respPc EXCEPT ![r] = "select"]
            /\ UNCHANGED <<proc, sendClosed, wsClosed, crashed, chanVars, readerVars,
                           writerPc, nResp, eof, buf, panicking, waitErr, bchan,
                           childVars,
                           ghostVars>>

\* pipe(): reader.Read returned one byte b, which is sent on the byte channel
PipeReadByte(r, s, b) ==
    LET c == pipeSrc[r][s] IN
    /\ Running
    /\ UNCHANGED otherVars
    /\ pipePc[r][s] = "read"
    /\ ~streamEOF[c][s]
    /\ closeCount[c] = 0
    /\ nReq + nBytes < MaxWork
    /\ Len(bchan[r][s]) < BChanCap
    /\ nBytes' = nBytes + 1
    /\ wrote' = [wrote EXCEPT ![c][s] = Append(@, b)]
    /\ bchan' = [bchan EXCEPT ![r][s] = Append(@, b)]
    /\ UNCHANGED <<proc, sendClosed, wsClosed, crashed, chanVars, readerVars, writerPc,
                   respVars, pipePc, pipeSrc, nChild, nilStderr, streamEOF, closeCount,
                   waitCount, nFault, ghostVars>>

\* pipe(): reader.Read returned no byte but the error e; the goroutine now
\* blocks in `echan <- err`
PipeReadErr(r, s, e) ==
    LET c == pipeSrc[r][s] IN
    /\ Running
    /\ UNCHANGED otherVars
    /\ pipePc[r][s] = "read"
    /\ e # EOFErr => nFault < MaxFault
    /\ nFault' = IF e = EOFErr THEN nFault ELSE nFault + 1
    /\ pipePc' = [pipePc EXCEPT ![r][s] = IF e = EOFErr THEN "sendEOF" ELSE "sendERR"]
    /\ streamEOF' = IF e = EOFErr THEN [streamEOF EXCEPT ![c][s] = TRUE] ELSE streamEOF
    /\ UNCHANGED <<proc, sendClosed, wsClosed, crashed, chanVars, readerVars, writerPc,
                   respVars, pipeSrc, bchan, nChild, nilStderr, wrote, closeCount,
                   waitCount, nBytes, ghostVars>>

\* pipe(): a send on a channel that the deferred function of respond() closed
PipeSendClosed(r, s) ==
    /\ Running
    /\ UNCHANGED otherVars
    /\ pipePc[r][s] = "live"
    /\ Crash("send on closed channel in pipe")

Line(s) == IF s = "out" THEN "lineOut" ELSE "lineErr"
Drain(s) == IF s = "out" THEN "drainOut" ELSE "drainErr"

\* a stream frame that fills both Stdout and Stderr
StreamFrameBoth(s, b, path) == response(1, << >>, b, b, "", path)

\* response{Timestamp: now, Stdout: b} or response{Timestamp: now, Stderr: b}
StreamFrame(s, b, path) ==
    IF s = "out" THEN response(1, << >>, b, << >>, "", path)
    ELSE response(1, << >>, << >>, b, "", path)

\* a frame carrying the bytes b of stream s is sent by Responder r
Emit(r, s, b) == emitted' = [emitted EXCEPT ![r][s] = @ \o b]

\* stdoutBuf.WriteByte(m)
WriteByte(b, m) == Append(b, m)

\* a test that takes every byte for a line feed
AnyByte(m) == TRUE

\* `if m == '\n'`
IsNewline(m) == m = LF

\* case m := <-stdoutMsg (or stderrMsg): WriteByte, and a frame on '\n'
RecvByte(r, s) ==
    /\ Running
    /\ UNCHANGED otherVars
    /\ respPc[r] = "select"
    /\ bchan[r][s] # << >>
    /\ LET m == Head(bchan[r][s])
           acc == WriteByte(buf[r][s], m)
       IN
       /\ bchan' = [bchan EXCEPT ![r][s] = Tail(@)]
       /\ buf' = [buf EXCEPT ![r][s] = acc]
       /\ IF IsNewline(m)
          THEN /\ Send(r, StreamFrame(s, acc, "line"))
               /\ Emit(r, s, acc)
               /\ respPc' = [respPc EXCEPT ![r] = Line(s)]
          ELSE UNCHANGED <<chanVars, emitted, respPc>>
    /\ UNCHANGED <<proc, sendClosed, wsClosed, crashed, readerVars, writerPc,
                   nResp, eof, panicking, waitErr, pipePc, pipeSrc, childVars,
                   balance>>

\* `if eof { Wait ... return }; eof = true`
EofCheck(r) ==
    IF eof[r]
    THEN respPc' = [respPc EXCEPT ![r] = "wait"] /\ UNCHANGED eof
    ELSE respPc' = [respPc EXCEPT ![r] = "select"] /\ eof' = [eof EXCEPT ![r] = TRUE]

\* a test that takes every error for io.EOF
AnyError(sending) == TRUE

\* `if e == io.EOF`, for the error the reader goroutine is sending
IsEOF(sending) == sending = "sendEOF"

\* case e := <-stdoutErr (or stderrErr)
RecvErr(r, s) ==
    /\ Running
    /\ UNCHANGED otherVars
    /\ respPc[r] = "select"
    /\ pipePc[r][s] \in {"sendEOF", "sendERR"}
    /\ pipePc' = [pipePc EXCEPT ![r][s] = "done"]
    /\ IF IsEOF(pipePc[r][s])
       THEN IF Len(buf[r][s]) > 0
            THEN /\ Send(r, StreamFrame(s, buf[r][s], "drain"))
                 /\ Emit(r, s, buf[r][s])
                 /\ respPc' = [respPc EXCEPT ![r] = Drain(s)]
                 /\ UNCHANGED eof
            ELSE /\ EofCheck(r)
                 /\ UNCHANGED <<chanVars, emitted>>
       ELSE /\ Send(r, ResultFrame("connection closed unexpectedly", "fatal"))
            /\ respPc' = [respPc EXCEPT ![r] = "fatal"]
            /\ UNCHANGED <<eof, emitted>>
    /\ UNCHANGED <<proc, sendClosed, wsClosed, crashed, readerVars, writerPc,
                   nResp, buf, panicking, waitErr, pipeSrc, bchan, childVars,
                   balance>>

\* fmt.Sprint(err) of a non-nil Wait error
WaitError == "exit status 1"

\* an exit-status frame that reports success whatever Wait returned
ExitResultZero(err) == "0"

\* the Result of the exit-status frame: fmt.Sprint(err), or "0" when err == nil
ExitResult(err) == IF err THEN WaitError ELSE "0"

\* wss.proc.Wait() after the second EOF, and the exit-status frame
RespondWait(r) ==
    /\ Running
    /\ UNCHANGED otherVars
    /\ respPc[r] = "wait"
    /\ IF proc = NilProc
       THEN /\ panicking' = panicking \cup {r}
            /\ Return(r)
            /\ UNCHANGED <<chanVars, waitCount>>
       ELSE /\ waitCount' = [waitCount EXCEPT ![proc] = @ + 1]
            /\ \E err \in BOOLEAN :
                 /\ waitErr' = [waitErr EXCEPT ![r] = IF err THEN "error" ELSE "nil"]
                 /\ Send(r, ResultFrame(ExitResult(err), "exit"))
            /\ respPc' = [respPc EXCEPT ![r] = "exit"]
            /\ UNCHANGED <<panicking, eof, buf, pipeVars, wrote, streamEOF, emitted>>
    /\ UNCHANGED <<proc, sendClosed, wsClosed, crashed, readerVars, writerPc,
                   nResp, nChild, nilStderr, closeCount, nBytes, nFault, balance>>

\* a case of the select other than the timer can proceed
StreamReady(r) ==
    \E s \in StreamNames : bchan[r][s] # << >> \/ pipePc[r][s] \in {"sendEOF", "sendERR"}

\* a flush that forgets stderr: only the stdout buffer goes out and is reset
TimerStdoutOnly(r) ==
    /\ Running
    /\ UNCHANGED otherVars
    /\ respPc[r] = "select"
    /\ ~StreamReady(r)
    /\ IF Len(buf[r]["out"]) > 0
       THEN /\ Send(r, response(0, << >>, buf[r]["out"], << >>, "", "flush"))
            /\ emitted' = [emitted EXCEPT ![r]["out"] = @ \o buf[r]["out"]]
            /\ buf' = [buf EXCEPT ![r]["out"] = << >>]
            /\ respPc' = [respPc EXCEPT ![r] = "flush"]
       ELSE UNCHANGED <<chanVars, emitted, buf, respPc>>
    /\ UNCHANGED <<proc, sendClosed, wsClosed, crashed, readerVars, writerPc,
                   nResp, eof, panicking, waitErr, pipeVars, childVars, balance>>

\* case <-time.After(1 * time.Second): both buffers go out in one frame, which
\* is built from the zero value and so carries no Timestamp
Timer(r) ==
    /\ Running
    /\ UNCHANGED otherVars
    /\ respPc[r] = "select"
    /\ ~StreamReady(r)
    /\ IF Len(buf[r]["out"]) > 0 \/ Len(buf[r]["err"]) > 0
       THEN /\ Send(r, response(0, << >>, buf[r]["out"], buf[r]["err"], "", "flush"))
            /\ emitted' = [emitted EXCEPT ![r] =
                              [s \in StreamNames |-> emitted[r][s] \o buf[r][s]]]
            /\ buf' = [buf EXCEPT ![r] = NoBytes]
            /\ respPc' = [respPc EXCEPT ![r] = "flush"]
       ELSE UNCHANGED <<chanVars, emitted, buf, respPc>>
    /\ UNCHANGED <<proc, sendClosed, wsClosed, crashed, readerVars, writerPc,
                   nResp, eof, panicking, waitErr, pipeVars, childVars, balance>>

\* a send of respond() returned: the statements up to the next shared access
RespondResume(r) ==
    /\ CASE respPc[r] \in {"lineOut", "lineErr"} ->
              LET s == IF respPc[r] = "lineOut" THEN "out" ELSE "err" IN
              /\ buf' = [buf EXCEPT ![r][s] = << >>]
              /\ respPc' = [respPc EXCEPT ![r] = "select"]
              /\ UNCHANGED <<eof, waitErr, pipeVars, wrote, streamEOF, emitted>>
         [] respPc[r] \in {"drainOut", "drainErr"} ->
              LET s == IF respPc[r] = "drainOut" THEN "out" ELSE "err" IN
              /\ buf' = [buf EXCEPT ![r][s] = << >>]
              /\ EofCheck(r)
              /\ UNCHANGED <<waitErr, pipeVars, wrote, streamEOF, emitted>>
         [] respPc[r] = "flush" ->
              /\ respPc' = [respPc EXCEPT ![r] = "select"]
              /\ UNCHANGED <<buf, eof, waitErr, pipeVars, wrote, streamEOF, emitted>>
         [] OTHER ->
              \* after the exit-status frame or the fatal frame: return
              Return(r)
    /\ UNCHANGED <<readerPc, req, nReq, nResp>>

\* a send of respond() on wss.send after Close() closed it: panic
SendClosed(r) ==
    /\ Running
    /\ UNCHANGED otherVars
    /\ pending[r] # << >>
    /\ sendClosed
    /\ pending' = [pending EXCEPT ![r] = << >>]
    /\ panicking' = panicking \cup {r}
    /\ Return(r)
    /\ UNCHANGED <<proc, sendClosed, wsClosed, crashed, posted, written, lastWrite,
                   readerVars, writerPc, nResp, nChild, nilStderr, closeCount,
                   waitCount, nBytes, nFault, balance>>

\* deferred: wss.proc.Close()
CloseProc(r) ==
    /\ Running
    /\ UNCHANGED otherVars
    /\ respPc[r] = "closeProc"
    /\ IF proc = NilProc
       THEN Crash("nil wss.proc in deferred Close")
       ELSE /\ closeCount' = [closeCount EXCEPT ![proc] = @ + 1]
            /\ respPc' = [respPc EXCEPT ![r] = "clearProc"]
            /\ UNCHANGED <<proc, sendClosed, wsClosed, crashed, chanVars, readerVars,
                           writerPc, nResp, eof, buf, panicking, waitErr, pipeVars,
                           nChild,
                           nilStderr, wrote, streamEOF, waitCount, nBytes, nFault,
                           ghostVars>>

\* deferred: wss.proc = nil; respond() has returned, or its panic ends the process
ClearProc(r) ==
    /\ Running
    /\ UNCHANGED otherVars
    /\ respPc[r] = "clearProc"
    /\ IF r \in panicking
       THEN Crash("panic in respond")
       ELSE /\ proc' = NilProc
            /\ balance' = balance - 1
            /\ respPc' = [respPc EXCEPT ![r] = "done"]
            /\ UNCHANGED <<sendClosed, wsClosed, crashed, chanVars, readerVars, writerPc,
                           nResp, eof, buf, panicking, waitErr, pipeVars, childVars,
                           emitted>>

\* ------------------------------------------------------------------ Writer
\* a receive that leaves the frame in the queue
DequeueKeep(p) == pending' = pending

\* `response := <-wss.send`: the frame of producer p leaves the queue
Dequeue(p) == pending' = [pending EXCEPT ![p] = << >>]

\* a Writer that leaves its loop without closing the transport
WriterExitOpen ==
    /\ writerPc' = "done"
    /\ UNCHANGED wsClosed

\* the Writer leaves its loop: wss.ws.Close(), and Writer() returns
WriterExit ==
    /\ writerPc' = "done"
    /\ wsClosed' = TRUE

\* one iteration of `for response := range wss.send`: receive the frame of
\* producer p, whose send returns, and WriteJSON it; a failed write ends the
\* Writer, which closes the transport
WriterWrite(p) ==
    /\ Running
    /\ UNCHANGED otherVars
    /\ writerPc = "run"
    /\ ~sendClosed
    /\ pending[p] # << >>
    /\ Dequeue(p)
    /\ UNCHANGED posted
    /\ \E ok \in BOOLEAN :
         IF ok
         THEN /\ ~wsClosed
              /\ written' = [written EXCEPT ![p] = @ + 1]
              /\ lastWrite' = [prod |-> p, seq |-> pending[p][1].seq]
              /\ UNCHANGED <<writerPc, wsClosed>>
         ELSE /\ WriterExit
              /\ UNCHANGED <<written, lastWrite>>
    /\ IF p = ReaderId THEN ReaderResume ELSE RespondResume(p)
    /\ UNCHANGED <<proc, sendClosed, crashed, panicking, nChild, nilStderr,
                   closeCount, waitCount, nBytes, nFault, balance>>

\* the range loop ends because wss.send was closed
WriterClosed ==
    /\ Running
    /\ UNCHANGED otherVars
    /\ writerPc = "run"
    /\ sendClosed
    /\ WriterExit
    /\ UNCHANGED <<proc, sendClosed, crashed, chanVars, readerVars,
                   respVars, pipeVars, childVars, ghostVars>>

\* WebsocketShell.Close(), called by the owner of the session once the Reader returned
Close ==
    /\ Running
    /\ UNCHANGED otherVars
    /\ readerPc = "done"
    /\ ~sendClosed
    /\ sendClosed' = TRUE
    /\ UNCHANGED <<proc, wsClosed, crashed, chanVars, readerVars, writerPc,
                   respVars, pipeVars, childVars, ghostVars>>

\* ------------------------------------------------------------ specification
Next ==
    \/ ReaderReadFail
    \/ \E q \in Requests : ReaderRead(q)
    \/ ReaderBusy
    \/ \E p \in Producers : WriterWrite(p)
    \/ WriterClosed
    \/ Close
    \/ \E r \in RespIds : RespondStart(r)
    \/ \E r \in RespIds : RespondStart2(r)
    \/ \E r \in RespIds, s \in StreamNames, b \in Bytes : PipeReadByte(r, s, b)
    \/ \E r \in RespIds, s \in StreamNames, e \in {EOFErr, OtherErr} : PipeReadErr(r, s, e)
    \/ \E r \in RespIds, s \in StreamNames : PipeSendClosed(r, s)
    \/ \E r \in RespIds, s \in StreamNames : RecvByte(r, s)
    \/ \E r \in RespIds, s \in StreamNames : RecvErr(r, s)
    \/ \E r \in RespIds : RespondWait(r)
    \/ \E r \in RespIds : Timer(r)
    \/ \E r \in RespIds : SendClosed(r)
    \/ \E r \in RespIds : CloseProc(r)
    \/ \E r \in RespIds : ClearProc(r)

Spec == Init /\ [][Next]_vars

\* The steps of the goroutines of the program.  The Go scheduler runs every
\* goroutine that can proceed; the client (requests, the failure of ReadJSON),
\* the children (their output) and the owner of the session (Close) are under
\* no obligation to act.
Select(r) == \E s \in StreamNames : RecvByte(r, s) \/ RecvErr(r, s)

FairSpec ==
    /\ Spec
    /\ WF_vars(ReaderBusy)
    /\ WF_vars(\E p \in Producers : WriterWrite(p))
    /\ WF_vars(WriterClosed)
    /\ \A r \in RespIds :
         /\ WF_vars(RespondStart(r))
         /\ WF_vars(RespondStart2(r))
         /\ WF_vars(Select(r) \/ Timer(r))
         /\ WF_vars(RespondWait(r))
         /\ WF_vars(SendClosed(r))
         /\ WF_vars(CloseProc(r))
         /\ WF_vars(ClearProc(r))
         /\ \A s \in StreamNames : WF_vars(PipeSendClosed(r, s))

\* ------------------------------------------------------------------ claims
\* C1: at most one child.  The number of children adopted by the Reader minus
\* the number of times a Responder's teardown released the slot
\* (`wss.proc = nil`) is always 0 or 1, and no step replaces a child held in
\* the slot by another child.
C1_AtMostOneChild ==
    /\ [](balance \in {0, 1})
    /\ [][proc # NilProc => proc' \in {proc, NilProc}]_vars

\* C2: at any instant the slot holds a child if and only if a Responder of
\* the session is active (started and not yet returned).
C2_SlotIffResponder ==
    (proc # NilProc) <=> (\E r \in RespIds : respPc[r] \notin {"none", "done"})

\* C3: byte conservation.  When a Responder has sent the exit-status frame of
\* a child, the bytes it sent in Stdout frames are exactly the bytes the child
\* wrote to stdout, and likewise for stderr.
C3_ByteConservation ==
    \A r \in RespIds :
        respPc[r] = "exit" =>
            \A s \in StreamNames : emitted[r][s] = wrote[pipeSrc[r]["out"]][s]

\* C4: exit terminality.  At most one exit-status frame is sent for a child,
\* and a Responder that has sent it sends nothing more.
C4_ExitTerminal ==
    /\ \A c \in ChildIds : waitCount[c] <= 1
    /\ \A r \in RespIds :
         respPc[r] \in {"closeProc", "clearProc", "done"} => pending[r] = << >>

\* C5: spawn failure.  When the Reader comes back from sending the fixed
\* Result string of a failed factory, it reads the next request: no Responder
\* is started and the slot stays nil.
C5_SpawnFailure ==
    [][(readerPc = "sendGo" /\ readerPc' = "read" /\ crashed' = "")
          => (nResp' = nResp /\ proc' = NilProc)]_vars

\* C6: the Reader calls Resize, Kill or Stdin().Write only while the child
\* exists.  Whenever the Reader, having found the slot non-nil, is about to
\* make the call through wss.proc, the slot still holds a child and no
\* Responder has called Close on that child.
C6_CallsOnlyOnLiveChild ==
    readerPc = "busy" => (proc # NilProc /\ closeCount[proc] = 0)

\* C7: cancellation by transport close.  Once the Reader has returned and the
\* Writer has returned, every producer blocked in a send on wss.send
\* eventually gets out of it.
C7_Cancellation ==
    (readerPc = "done" /\ writerPc = "done")
        ~> (\A p \in Producers : pending[p] = << >>)

\* C8: teardown.  Over all the Responders and all their return paths, Close
\* is called at most once on a child.
C8_CloseOnce == \A c \in ChildIds : closeCount[c] <= 1

\* C9: ordering per producer.  The n-th frame the Writer writes for a
\* producer is the n-th frame that producer sent: nothing is written twice,
\* skipped or reordered, and no frame is written that was not sent.
C9_PerProducerOrder ==
    /\ lastWrite.seq = written[lastWrite.prod]
    /\ \A p \in Producers :
         /\ written[p] <= posted[p]
         /\ pending[p] # << >> =>
              (pending[p][1].seq = posted[p] /\ written[p] < posted[p])

\* C9 witness: the Writer has written two frames of one producer, the second
\* one last.
C9_Witness == \E p \in Producers : written[p] = 2 /\ lastWrite = [prod |-> p, seq |-> 2]

\* C10: line framing.  A frame of the line path carries the whole accumulator
\* of its stream, which ends with a line feed and holds no other line feed;
\* an accumulator holds a line feed only while that frame is being sent, so a
\* byte other than a line feed has triggered no frame; while every Responder
\* serves a child of its own, the bytes a child wrote are the bytes sent in
\* frames, then the accumulator, then the bytes still in the byte channel;
\* and when the send of the frame returns, the accumulator is empty.
C10_LineFraming ==
    /\ [](\A r \in RespIds, s \in StreamNames :
            LET acc == buf[r][s]
                sending == respPc[r] \in {Line(s), Drain(s)}
            IN
            /\ respPc[r] = Line(s) =>
                 /\ pending[r] # << >>
                 /\ pending[r][1].frame = StreamFrame(s, acc, "line")
                 /\ Len(acc) > 0
                 /\ acc[Len(acc)] = LF
                 /\ \A i \in 1..(Len(acc) - 1) : acc[i] # LF
            /\ respPc[r] # Line(s) => \A i \in 1..Len(acc) : acc[i] # LF
            /\ (pending[r] # << >> /\ pending[r][1].frame.path = "line")
                  => respPc[r] \in {"lineOut", "lineErr"}
            /\ (nResp = nChild /\ pipeSrc[r][s] # NilProc) =>
                  wrote[pipeSrc[r][s]][s] =
                      emitted[r][s] \o (IF sending THEN << >> ELSE acc) \o bchan[r][s])
    /\ [][\A r \in RespIds, s \in StreamNames :
            (respPc[r] = Line(s) /\ respPc'[r] = "select") => buf'[r][s] = << >>]_vars

\* C10 witness: a line frame carrying a byte accumulated before the line feed
\* is being sent.
C10_Witness ==
    \E r \in RespIds, s \in StreamNames :
        respPc[r] = Line(s) /\ buf[r][s] = <<"a", LF>> /\ pending[r] # << >>

\* C11: two-phase EOF.  A Responder is calling Wait, or has called it, only
\* with its eof latch set and the error of both of its streams received, and
\* Wait is called at most once on a child.
C11_TwoPhaseEOF ==
    /\ \A r \in RespIds :
         respPc[r] \in {"wait", "exit"} =>
             (eof[r] /\ \A s \in StreamNames : pipePc[r][s] = "done")
    /\ \A r \in RespIds :
         (respPc[r] = "select" /\ \E s \in StreamNames : pipePc[r][s] # "done")
             => waitErr[r] = "none"
    /\ \A c \in ChildIds : waitCount[c] <= 1

\* C12: on the second EOF the remaining accumulators are flushed before Wait.
\* While a Responder sends the exit-status frame, its stdout and its stderr
\* accumulator are both empty.
C12_FlushedBeforeExit ==
    \A r \in RespIds :
        respPc[r] = "exit" => \A s \in StreamNames : buf[r][s] = << >>

\* C13: the slot is released only after the last frame was handed over.
\* While a Responder serves a child (from reading its streams to the return
\* of its last send) the slot holds that child, and a Responder in teardown
\* has no frame left to hand over.
C13_ExitBeforeRelease ==
    /\ \A r \in RespIds :
         pipeSrc[r]["out"] # NilProc => proc = pipeSrc[r]["out"]
    /\ \A r \in RespIds :
         respPc[r] \in {"closeProc", "clearProc", "done"} => pending[r] = << >>

\* C14: liveness of exit.  With fair scheduling, a Responder both of whose
\* streams have reached EOF eventually sends its exit-status frame, runs the
\* teardown and leaves the slot nil, unless the Writer stops receiving.
C14_ExitLiveness ==
    \A r \in RespIds :
        (/\ respPc[r] \in {"select", "lineOut", "lineErr", "drainOut", "drainErr",
                           "flush", "wait", "exit"}
         /\ \A s \in StreamNames : pipePc[r][s] \in {"sendEOF", "done"})
            ~> (respPc[r] = "done" \/ writerPc = "done" \/ sendClosed)

\* C15: fatal stream error.  When a Responder receives an error other than
\* io.EOF from a stream, it sends exactly one frame, the Result "connection
\* closed unexpectedly", without calling Wait; when that send returns it is
\* in its teardown, having sent nothing more and called no Wait.
C15_FatalStreamError ==
    /\ [](\A r \in RespIds :
            respPc[r] = "fatal" =>
                /\ waitErr[r] = "none"
                /\ pending[r] # << >>
                /\ pending[r][1].frame =
                       ResultFrame("connection closed unexpectedly", "fatal"))
    /\ [][\A r \in RespIds :
            /\ \A s \in StreamNames :
                 (pipePc[r][s] = "sendERR" /\ pipePc'[r][s] = "done") =>
                     /\ respPc'[r] = "fatal"
                     /\ posted'[r] = posted[r] + 1
                     /\ waitCount' = waitCount
            /\ (respPc[r] = "fatal" /\ respPc'[r] # "fatal" /\ crashed' = "") =>
                     /\ respPc'[r] = "closeProc"
                     /\ posted'[r] = posted[r]
                     /\ waitCount' = waitCount]_vars

\* C15 witness: the only Responder of the session has returned after a read
\* error, one frame sent, its child closed and never waited for.
C15_Witness ==
    /\ nResp = 1 /\ respPc[1] = "done" /\ nFault = 1
    /\ posted[1] = 1 /\ closeCount[1] = 1 /\ waitCount[1] = 0 /\ proc = NilProc

\* C16: periodic flush.  A frame sent from the select without a stream event
\* is sent when no stream event is ready and an accumulator is non-empty; it
\* is one frame, carries the whole of both accumulators and nothing else, and
\* leaves both accumulators empty.  With both accumulators empty the timer
\* sends nothing.
C16_PeriodicFlush ==
    /\ [](\A r \in RespIds :
            respPc[r] = "flush" =>
                /\ buf[r] = NoBytes
                /\ pending[r] # << >>
                /\ pending[r][1].frame.path = "flush")
    /\ [][\A r \in RespIds :
            (/\ respPc[r] = "select"
             /\ posted'[r] # posted[r]
             /\ bchan'[r] = bchan[r]
             /\ pipePc'[r] = pipePc[r]) =>
                /\ \A s \in StreamNames :
                     bchan[r][s] = << >> /\ pipePc[r][s] \notin {"sendEOF", "sendERR"}
                /\ buf[r] # NoBytes
                /\ posted'[r] = posted[r] + 1
                /\ pending'[r][1].frame.Stdout = buf[r]["out"]
                /\ pending'[r][1].frame.Stderr = buf[r]["err"]
                /\ pending'[r][1].frame.Stdin = << >>
                /\ pending'[r][1].frame.Result = ""
                /\ buf'[r] = NoBytes
                /\ respPc'[r] = "flush"]_vars

\* C16 witness: a flush frame carrying both a stdout and a stderr byte.
C16_Witness ==
    \E r \in RespIds :
        /\ respPc[r] = "flush"
        /\ pending[r] # << >>
        /\ pending[r][1].frame.Stdout = <<"a">>
        /\ pending[r][1].frame.Stderr = <<"a">>

\* C17: every frame sent on wss.send carries a Timestamp that was set.
C17_Timestamp ==
    \A p \in Producers : pending[p] # << >> => pending[p][1].frame.Timestamp = 1

\* C18: in every frame sent on wss.send at most one of Stdin, Stdout, Stderr
\* and Result is populated, except that a frame of the periodic flush may
\* populate Stdout and Stderr and nothing else.
C18_OneField ==
    \A p \in Producers :
        pending[p] # << >> =>
            LET f == pending[p][1].frame
                n == Cardinality({k \in {"Stdin", "Stdout", "Stderr"} : f[k] # << >>})
                     + (IF f.Result # "" THEN 1 ELSE 0)
            IN n <= 1 \/ (f.path = "flush" /\ f.Stdin = << >> /\ f.Result = "")

\* C18 witness: a frame with two populated fields is being sent.
C18_Witness ==
    \E p \in Producers :
        /\ pending[p] # << >>
        /\ Cardinality({k \in {"Stdin", "Stdout", "Stderr"} :
                           pending[p][1].frame[k] # << >>}) = 2

\* C19: exit encoding.  The exit-status frame has Result "0" exactly when
\* Wait returned nil, and the rendering of the error otherwise; it populates
\* no other field.
C19_ExitEncoding ==
    \A r \in RespIds :
        respPc[r] = "exit" =>
            /\ pending[r] # << >>
            /\ waitErr[r] \in {"nil", "error"}
            /\ LET f == pending[r][1].frame IN
               /\ f.Result = "0" <=> waitErr[r] = "nil"
               /\ waitErr[r] = "error" => f.Result = WaitError
               /\ f.Stdin = << >> /\ f.Stdout = << >> /\ f.Stderr = << >>

\* C19 witness: an exit-status frame for a Wait that returned an error.
C19_Witness ==
    \E r \in RespIds :
        respPc[r] = "exit" /\ waitErr[r] = "error" /\ pending[r] # << >>

\* C20: missing Action.  Reading a request with an empty Action, with or
\* without a child in the slot, sends exactly one frame, the Result "required
\* field 'Action'", adopts no child, starts no Responder, goes to no call on
\* the child and leaves the slot as it is; when the send returns the Reader
\* reads the next request.
C20_MissingAction ==
    [][/\ \A q \in Requests :
            (q.Action = "" /\ ReaderRead(q)) =>
                /\ pending'[ReaderId] =
                       <<[frame |-> ResultFrame("required field 'Action'", "reader"),
                          seq |-> posted[ReaderId] + 1]>>
                /\ posted'[ReaderId] = posted[ReaderId] + 1
                /\ proc' = proc
                /\ nChild' = nChild
                /\ nResp' = nResp
                /\ req' = req
                /\ readerPc' = "sendContinue"
       /\ (readerPc = "sendContinue" /\ readerPc' # "sendContinue" /\ crashed' = "") =>
                (readerPc' = "read" /\ nResp' = nResp /\ proc' = proc)]_vars

\* C20 witness: the Reader answers a request without Action while a child is
\* in the slot.
C20_Witness ==
    /\ proc # NilProc
    /\ readerPc = "sendContinue"
    /\ pending[ReaderId] # << >>
    /\ pending[ReaderId][1].frame.Result = "required field 'Action'"

\* C21: missing Argv.  With no child in the slot, reading a FORK or EXEC
\* request without Argv sends exactly one frame, the Result "missing required
\* field 'Argv'", adopts no child, starts no Responder and leaves the slot
\* nil; an OPEN request without Argv goes to its factory.
C21_MissingArgv ==
    [][\A q \in Requests :
          /\ (q.Action \in {FORK, EXEC} /\ Len(q.Argv) = 0 /\ proc = NilProc
                /\ ReaderRead(q)) =>
                /\ pending'[ReaderId] =
                       <<[frame |-> ResultFrame("missing required field 'Argv'", "reader"),
                          seq |-> posted[ReaderId] + 1]>>
                /\ posted'[ReaderId] = posted[ReaderId] + 1
                /\ proc' = NilProc
                /\ nChild' = nChild
                /\ nResp' = nResp
                /\ readerPc' = "sendContinue"
          /\ (q.Action = OPEN /\ proc = NilProc /\ ReaderRead(q)) =>
                \/ (nChild' = nChild + 1 /\ proc' = nChild + 1 /\ nResp' = nResp + 1)
                \/ (/\ readerPc' = "sendGo"
                    /\ pending'[ReaderId][1].frame = ResultFrame("unable to open pty", "reader"))]_vars

\* C21 witness: the Reader answers a request without Argv, the slot being nil.
C21_Witness ==
    /\ proc = NilProc
    /\ readerPc = "sendContinue"
    /\ pending[ReaderId] # << >>
    /\ pending[ReaderId][1].frame.Result = "missing required field 'Argv'"

\* C22: no running process.  With no child in the slot, reading a request
\* whose Action is neither empty nor FORK, OPEN or EXEC sends exactly one
\* frame, the Result "no running process", adopts no child, starts no
\* Responder and leaves the slot nil.
C22_NoRunningProcess ==
    [][\A q \in Requests :
          (q.Action \notin {"", FORK, OPEN, EXEC} /\ proc = NilProc /\ ReaderRead(q)) =>
                /\ pending'[ReaderId] =
                       <<[frame |-> ResultFrame("no running process", "reader"),
                          seq |-> posted[ReaderId] + 1]>>
                /\ posted'[ReaderId] = posted[ReaderId] + 1
                /\ proc' = NilProc
                /\ nChild' = nChild
                /\ nResp' = nResp
                /\ readerPc' = "sendContinue"]_vars

\* C22 witness: the Reader answers "no running process", the slot being nil.
C22_Witness ==
    /\ proc = NilProc
    /\ readerPc = "sendContinue"
    /\ pending[ReaderId] # << >>
    /\ pending[ReaderId][1].frame.Result = "no running process"

\* C23: spawn while BUSY.  With a child in the slot, reading a FORK, an OPEN
\* or an unknown action sends no frame, adopts no child, starts no Responder,
\* goes to no call on the child and leaves the slot as it is; the Reader
\* reads the next request.
C23_IgnoredWhileBusy ==
    [][\A q \in Requests :
          (q.Action \notin {"", RESIZE, SIGNAL, EXEC} /\ proc # NilProc /\ ReaderRead(q)) =>
                /\ pending' = pending
                /\ posted' = posted
                /\ proc' = proc
                /\ nChild' = nChild
                /\ nResp' = nResp
                /\ closeCount' = closeCount
                /\ req' = req
                /\ readerPc' = "read"]_vars

\* C23 witness: a second request was read with the child of the first one in
\* the slot, and the Reader has sent nothing and is reading again.
C23_Witness ==
    /\ nReq = 2 /\ nChild = 1 /\ nResp = 1 /\ proc = 1
    /\ readerPc = "read" /\ posted[ReaderId] = 0 /\ closeCount[1] = 0

\* C24: EXEC while BUSY.  An EXEC request read with a child in the slot goes
\* to tx, and tx sends exactly one frame: the echo of Argv joined with single
\* spaces, or the Result "message failed to send".  The Reader then resumes
\* its loop, and the slot and the Responders are as they were.
C24_ExecWhileBusy ==
    [][/\ \A q \in Requests :
            (q.Action = EXEC /\ proc # NilProc /\ ReaderRead(q)) =>
                (readerPc' = "busy" /\ req' = q /\ pending' = pending /\ proc' = proc)
       /\ (req.Action = EXEC /\ ReaderBusy) =>
            /\ crashed' = ""
            /\ posted'[ReaderId] = posted[ReaderId] + 1
            /\ pending'[ReaderId][1].frame \in
                   {response(1, Join(req.Argv), << >>, << >>, "", "echo"),
                    ResultFrame("message failed to send", "reader")}
            /\ readerPc' = "sendContinue"
            /\ proc' = proc
            /\ nResp' = nResp]_vars

\* C25: the Writer.  The Writer leaves its loop only when the queue is closed
\* or a write fails (a frame is taken and not written); once it has left, the
\* transport is closed and nothing more is written.
C25_WriterExit ==
    /\ [](writerPc = "done" => wsClosed)
    /\ [][/\ (writerPc = "run" /\ writerPc' = "done") =>
                \/ sendClosed
                \/ \E p \in Producers :
                      /\ pending[p] # << >>
                      /\ pending'[p] = << >>
                      /\ written' = written
          /\ (writerPc = "done" /\ crashed' = "") =>
                /\ writerPc' = "done"
                /\ written' = written
                /\ lastWrite' = lastWrite]_vars

\* C25 witness: the Writer has left its loop on a failed write, the queue
\* being open and the Reader still running, and the transport is closed.
C25_Witness ==
    writerPc = "done" /\ ~sendClosed /\ readerPc # "done" /\ wsClosed

\* C26: the Reader.  The Reader ends only by a failed decode, closing the
\* transport as it ends; no call on the child ends it.
C26_ReaderExit ==
    /\ [](crashed # "nil wss.proc in Reader")
    /\ [][(readerPc # "done" /\ readerPc' = "done") =>
              (readerPc = "read" /\ wsClosed')]_vars

\* C27: nil stderr.  For a Responder that serves a child without a stderr
\* handle, the stderr reader never reads and sends nothing but its one EOF, no
\* stderr byte is queued, accumulated or emitted, the received EOF sets the
\* latch, and Wait is reached only after the EOF of stdout was received too.
C27_NilStderr ==
    /\ [](\A r \in RespIds :
            (pipeSrc[r]["out"] # NilProc /\ pipeSrc[r]["err"] = NilProc
                /\ respPc[r] # "start2") =>
                /\ pipePc[r]["err"] \in {"sendEOF", "done"}
                /\ bchan[r]["err"] = << >>
                /\ buf[r]["err"] = << >>
                /\ emitted[r]["err"] = << >>
                /\ (pipePc[r]["err"] = "done" /\ pipePc[r]["out"] # "done"
                      /\ respPc[r] = "select") => eof[r]
                /\ respPc[r] \in {"wait", "exit"} =>
                      (pipePc[r]["out"] = "done" /\ pipePc[r]["err"] = "done"))
    /\ [][\A r \in RespIds :
            (pipeSrc[r]["out"] # NilProc /\ pipeSrc[r]["err"] = NilProc
                /\ pipePc[r]["err"] = "done" /\ pipeSrc'[r] = pipeSrc[r]) =>
                pipePc'[r]["err"] = "done"]_vars

\* C27 witness: a Responder sends the exit-status frame of a child that has
\* no stderr handle.
C27_Witness ==
    \E r \in RespIds :
        /\ respPc[r] = "exit"
        /\ pipeSrc[r]["out"] # NilProc
        /\ pipeSrc[r]["err"] = NilProc

\* ---------------------------------------------------------- package volume
\* m[k] = v and delete(m, k) on a Go map
Put(m, k, v) == [x \in DOMAIN m \cup {k} |-> IF x = k THEN v ELSE m[x]]
Delete(m, k) == [x \in DOMAIN m \ {k} |-> m[x]]

ErrInvalidDriverInit == "invalid driver initializer"
ErrDriverNotInit == "driver not initialized"
ErrDriverExists == "driver exists"
ErrDriverNotSupported == "driver not supported"
ErrPathIsNotAbs == "path is not absolute"
\* an error returned by a DriverInit
ErrInit == "init failed"

\* the names drivers are registered under, and the types drivers report
DriverNames == {"btrfs", "rsync"}

\* type DriverInit: nil, or a function; of the function, what the package
\* sees is the GetFSType() of the drivers it makes
DriverInits ==
    {[nil |-> TRUE, fstype |-> ""]}
    \cup {[nil |-> FALSE, fstype |-> f] : f \in DriverNames}

\* paths, as sequences of characters
Roots == {<<"/", "a">>, <<"/", "a", "/">>, <<"/", "/", "b">>, <<"a">>}

\* runs of separators become one separator
RECURSIVE Squeeze(_)
Squeeze(p) ==
    IF Len(p) < 2 THEN p
    ELSE IF p[1] = "/" /\ p[2] = "/" THEN Squeeze(Tail(p))
    ELSE <<p[1]>> \o Squeeze(Tail(p))

\* filepath.Clean, on paths without "." and ".." elements
Clean(p) ==
    LET s == Squeeze(p) IN
    IF Len(s) = 0 THEN <<".">>
    ELSE IF Len(s) > 1 /\ s[Len(s)] = "/" THEN SubSeq(s, 1, Len(s) - 1)
    ELSE s

\* path.IsAbs
IsAbs(p) == Len(p) > 0 /\ p[1] = "/"

NoDriver == [root |-> << >>, fstype |-> ""]

\* Register(name, driverInit)
Register(name, driverInit) ==
    /\ IF driverInit.nil
       THEN volErr' = ErrInvalidDriverInit /\ UNCHANGED drivers
       ELSE IF name \in DOMAIN drivers
       THEN volErr' = ErrDriverExists /\ UNCHANGED drivers
       ELSE volErr' = "nil" /\ drivers' = Put(drivers, name, driverInit)
    /\ UNCHANGED <<driversByRoot, resized, notVolumeVars>>

\* Registered(name)
Registered(name) == name \in DOMAIN drivers

\* Unregister(name): delete(drivers, name), then every root whose driver
\* reports the type name is deleted from driversByRoot
Unregister(name) ==
    /\ drivers' = Delete(drivers, name)
    /\ driversByRoot' =
           [root \in {r \in DOMAIN driversByRoot : driversByRoot[r].fstype # name}
               |-> driversByRoot[root]]
    /\ UNCHANGED <<volErr, resized, notVolumeVars>>

\* InitDriver without the test for a driver at the root
NeverInit(clean) == FALSE

\* a driver is already initialized at the cleaned root
AlreadyInit(clean) == clean \in DOMAIN driversByRoot

\* InitDriver(name, root, args); fails tells whether the DriverInit returns an error
InitDriver(name, root, fails) ==
    /\ IF name \in DOMAIN drivers
       THEN LET clean == Clean(root) IN
            IF AlreadyInit(clean)
            THEN volErr' = "nil" /\ UNCHANGED driversByRoot
            ELSE IF ~IsAbs(clean)
            THEN volErr' = ErrPathIsNotAbs /\ UNCHANGED driversByRoot
            ELSE IF fails
            THEN volErr' = ErrInit /\ UNCHANGED driversByRoot
            ELSE /\ volErr' = "nil"
                 /\ driversByRoot' =
                        Put(driversByRoot, clean,
                            [root |-> clean, fstype |-> drivers[name].fstype])
       ELSE volErr' = ErrDriverNotSupported /\ UNCHANGED driversByRoot
    /\ UNCHANGED <<drivers, resized, notVolumeVars>>

\* GetDriver(root)
GetDriver(root) ==
    IF Clean(root) \in DOMAIN driversByRoot
    THEN [driver |-> driversByRoot[Clean(root)], err |-> "nil"]
    ELSE [driver |-> NoDriver, err |-> ErrDriverNotInit]

ErrDriverNotFound == "driver not found"
\* an error returned by the Resize of a driver
ErrResize == "resize failed"
ResizeResults == {"nil", ErrResize}

\* the roots drivers can be initialized at
CleanRoots == {Clean(root) : root \in Roots}

\* lookupDriver(volumeName): the drivers it may return, by their roots.  The
\* body of the loop returns in its first iteration, whether or not the driver
\* matches, and the iteration of a map starts at any entry; nil (<< >>) when
\* the map is empty
lookupDriver == IF DOMAIN driversByRoot = {} THEN {<< >>} ELSE DOMAIN driversByRoot

\* Resize(request); managing is the set of roots whose driver has the volume
\* request.VolumeName (its Get succeeds), result is what the Resize of the
\* driver returns
Resize(managing, result) ==
    /\ managing \subseteq DOMAIN driversByRoot
    /\ \E driver \in lookupDriver : resized' = driver
    /\ volErr' = ErrDriverNotFound
    /\ UNCHANGED <<drivers, driversByRoot, notVolumeVars>>

VolumeNext ==
    \/ \E name \in DriverNames, driverInit \in DriverInits : Register(name, driverInit)
    \/ \E name \in DriverNames : Unregister(name)
    \/ \E name \in DriverNames, root \in Roots, fails \in BOOLEAN :
          InitDriver(name, root, fails)
    \/ \E managing \in SUBSET CleanRoots, result \in ResizeResults :
          Resize(managing, result)

VolumeSpec == Init /\ [][VolumeNext]_vars

\* C28: Unregister.  Unregister(name) changes nothing when name is not
\* registered.  Otherwise name is not registered afterwards, GetDriver returns
\* ErrDriverNotInit for every root whose driver reported the type name, and
\* the registrations of the other names and the drivers of the other types
\* are as they were.
C28_Unregister ==
    [][\A name \in DriverNames :
          Unregister(name) =>
              /\ ~Registered(name) =>
                     (drivers' = drivers /\ driversByRoot' = driversByRoot)
              /\ ~Registered(name)'
              /\ \A other \in DriverNames \ {name} :
                     /\ Registered(other)' = Registered(other)
                     /\ Registered(other) => drivers'[other] = drivers[other]
              /\ \A root \in Roots :
                     IF GetDriver(root).err = "nil" /\ GetDriver(root).driver.fstype = name
                     THEN GetDriver(root)'.err = ErrDriverNotInit
                     ELSE GetDriver(root)' = GetDriver(root)]_vars

\* ------------------------------------------------------ package proxy: TCPMux
\* A step of a goroutine ends at a channel operation, at Accept or at the
\* end of the goroutine.  Close() is called at most once: a second call is a
\* close of a closed channel.
NilListener == "nil"

\* NewTCPMux(listener)
NewTCPMux(listener) ==
    /\ loopPc = "none"
    /\ IF listener = NilListener
       THEN /\ muxErr' = "listener can not be nil"
            /\ UNCHANGED <<muxListener, loopPc>>
       ELSE /\ muxErr' = "nil"
            /\ muxListener' = listener
            /\ loopPc' = "start"
    /\ UNCHANGED <<muxClosing, muxConnections, acceptorPc, nConn, connPc,
                   notMuxVars>>

\* mux.Close(): close(mux.closing)
MuxClose ==
    /\ loopPc # "none"
    /\ ~muxClosing
    /\ muxClosing' = TRUE
    /\ UNCHANGED <<muxListener, muxErr, muxConnections, loopPc, acceptorPc, nConn,
                   connPc, notMuxVars>>

\* loop(): go mux.acceptor(mux.listener, closeAcceptor)
LoopStart ==
    /\ loopPc = "start"
    /\ loopPc' = "select"
    /\ acceptorPc' = "accept"
    /\ UNCHANGED <<muxListener, muxErr, muxClosing, muxConnections, nConn, connPc,
                   notMuxVars>>

\* a closing case that leaves the listener to its creator
LoopClosingLeak ==
    /\ loopPc = "select"
    /\ muxClosing
    /\ loopPc' = "ack"
    /\ UNCHANGED <<muxListener, muxErr, muxClosing, muxConnections, acceptorPc, nConn,
                   connPc, notMuxVars>>

\* loop(): case errc := <-mux.closing, ready once the channel is closed;
\* mux.listener.Close(), then the send on closeAcceptor
LoopClosing ==
    /\ loopPc = "select"
    /\ muxClosing
    /\ muxListener' = "closed"
    /\ loopPc' = "ack"
    /\ UNCHANGED <<muxErr, muxClosing, muxConnections, acceptorPc, nConn, connPc,
                   notMuxVars>>

\* loop(): case conn, ok := <-mux.connections with ok, the acceptor sending
\* its connection; go mux.muxConnection(conn)
LoopConn ==
    /\ loopPc = "select"
    /\ muxConnections = "open"
    /\ acceptorPc = "offer"
    /\ connPc' = [connPc EXCEPT ![nConn] = "muxing"]
    /\ acceptorPc' = "accept"
    /\ UNCHANGED <<muxListener, muxErr, muxClosing, muxConnections, loopPc, nConn,
                   notMuxVars>>

\* loop(): case conn, ok := <-mux.connections with !ok; mux.connections = nil
LoopConnClosed ==
    /\ loopPc = "select"
    /\ muxConnections = "closed"
    /\ muxConnections' = "nil"
    /\ UNCHANGED <<muxListener, muxErr, muxClosing, loopPc, acceptorPc, nConn, connPc,
                   notMuxVars>>

\* the acceptor returns: its deferred close(mux.connections)
AcceptorReturn ==
    /\ acceptorPc' = "done"
    /\ muxConnections' = "closed"

\* loop(): closeAcceptor <- closeAcceptorAck, received by the acceptor in one
\* of its selects; the acceptor closes the connection it holds and returns.
\* The loop goes on to `errc <- nil`, a send on the nil channel it received
\* from the closed mux.closing.
LoopAck ==
    /\ loopPc = "ack"
    /\ acceptorPc \in {"offer", "retry"}
    /\ connPc' = IF acceptorPc = "offer"
                 THEN [connPc EXCEPT ![nConn] = "closed"]
                 ELSE connPc
    /\ AcceptorReturn
    /\ loopPc' = "errc"
    /\ UNCHANGED <<muxListener, muxErr, muxClosing, nConn, notMuxVars>>

\* acceptor(): mux.listener.Accept() returns a connection
AcceptConn ==
    /\ acceptorPc = "accept"
    /\ muxListener = "open"
    /\ nConn < MaxConn
    /\ nConn' = nConn + 1
    /\ connPc' = [connPc EXCEPT ![nConn + 1] = "accepted"]
    /\ acceptorPc' = "offer"
    /\ UNCHANGED <<muxListener, muxErr, muxClosing, muxConnections, loopPc,
                   notMuxVars>>

\* acceptor(): Accept() fails.  "too many open files" is retried after 50 ms;
\* any other error, that of a closed listener included, ends the acceptor.
AcceptErr(tooMany) ==
    /\ acceptorPc = "accept"
    /\ tooMany => muxListener = "open"
    /\ IF tooMany
       THEN acceptorPc' = "retry" /\ UNCHANGED muxConnections
       ELSE AcceptorReturn
    /\ UNCHANGED <<muxListener, muxErr, muxClosing, loopPc, nConn, connPc,
                   notMuxVars>>

\* acceptor(): case <-time.After(time.Millisecond * 50): continue
AcceptorRetry ==
    /\ acceptorPc = "retry"
    /\ acceptorPc' = "accept"
    /\ UNCHANGED <<muxListener, muxErr, muxClosing, muxConnections, loopPc, nConn,
                   connPc, notMuxVars>>

\* muxConnection(conn): the header is read and the service dialed, and the
\* connection is handed to ProxyLoop; or one of the two fails, conn.Close()
MuxConnection(c, ok) ==
    /\ connPc[c] = "muxing"
    /\ connPc' = [connPc EXCEPT ![c] = IF ok THEN "proxy" ELSE "closed"]
    /\ UNCHANGED <<muxListener, muxErr, muxClosing, muxConnections, loopPc,
                   acceptorPc, nConn, notMuxVars>>

\* ProxyLoop(): both brokers are done; client.Close()
ProxyLoop(c) ==
    /\ connPc[c] = "proxy"
    /\ connPc' = [connPc EXCEPT ![c] = "closed"]
    /\ UNCHANGED <<muxListener, muxErr, muxClosing, muxConnections, loopPc,
                   acceptorPc, nConn, notMuxVars>>

\* the steps of the goroutine of loop()
Loop == LoopStart \/ LoopClosing \/ LoopConn \/ LoopConnClosed \/ LoopAck

MuxNext ==
    \/ \E listener \in {NilListener, "open"} : NewTCPMux(listener)
    \/ MuxClose
    \/ LoopStart
    \/ LoopClosing
    \/ LoopConn
    \/ LoopConnClosed
    \/ LoopAck
    \/ AcceptConn
    \/ \E tooMany \in BOOLEAN : AcceptErr(tooMany)
    \/ AcceptorRetry
    \/ \E c \in ConnIds, ok \in BOOLEAN : MuxConnection(c, ok)
    \/ \E c \in ConnIds : ProxyLoop(c)

\* The Go scheduler runs the goroutine of loop() whenever it can take a step;
\* the caller of Close, the peers and the acceptor are under no obligation.
MuxSpec == Init /\ [][MuxNext]_vars /\ WF_vars(Loop)

\* C29: the mux owns its listener.  The listener is closed only after
\* Close() was called on the mux, and once Close() was called the loop
\* eventually closes the listener.
C29_ListenerOwned ==
    /\ [](muxListener = "closed" => muxClosing)
    /\ (muxClosing ~> muxListener = "closed")

\* C29 witness: Close() was called while the mux served connections, and the
\* listener is closed.
C29_Witness ==
    muxClosing /\ muxListener = "closed" /\ nConn > 0

\* ------------------------------------------- package service: host registry
\* zk[h].node: /pools/POOLID/hosts/h exists; zk[h].online: the node "online"
\* of h is absent ("none"), has no child ("empty") or has one ("up");
\* zk[h].locked: the node "locked" of h has a child.
\* A goroutine blocked in a select is woken by the first of its cases that
\* becomes ready, and takes that case.  A Spawn goroutine reads the nodes of
\* its host and enters its select in one step.
ErrShutdown == "ErrShutdown"
\* an error of the connection other than ErrNoNode
ErrConn == "ErrConn"

\* the order in which the coordinator lists the hosts
HostOrder == <<"h1", "h2">>

Range(s) == {s[i] : i \in DOMAIN s}

\* the selects of Spawn and waitOnline that wait for the event of the node "online"
OnlineWatchers ==
    {"waitOnline", "offer", "waitLock", "waitEv", "outage", "recv1", "quiesce", "recv2"}
\* the selects of Spawn that wait for the event of the node "locked"
LockWatchers == {"offer", "waitLock"}
\* where a goroutine woken by an event goes on: waitOnline calls ExistsW again,
\* Spawn starts its loop again
Woken(pc) == IF pc = "waitOnline" THEN "start" ELSE "check"

\* the coordinator: the node "online" of h, or its child, is created or deleted
SetOnline(h, v) ==
    /\ nChange < MaxChange
    /\ zk[h].node
    /\ v # zk[h].online
    /\ nChange' = nChange + 1
    /\ zk' = [zk EXCEPT ![h].online = v]
    /\ spawnPc' = [spawnPc EXCEPT ![h] = IF @ \in OnlineWatchers THEN Woken(@) ELSE @]
    /\ UNCHANGED <<spawnCancel, grhPc, grhTodo, grhOnline, grhHosts, grhRet,
                   grhCancel, notRegistryVars>>

\* the coordinator: the child of the node "locked" of h is created or deleted
SetLocked(h, b) ==
    /\ nChange < MaxChange
    /\ zk[h].node
    /\ b # zk[h].locked
    /\ nChange' = nChange + 1
    /\ zk' = [zk EXCEPT ![h].locked = b]
    /\ spawnPc' = [spawnPc EXCEPT ![h] = IF @ \in LockWatchers THEN "check" ELSE @]
    /\ UNCHANGED <<spawnCancel, grhPc, grhTodo, grhOnline, grhHosts, grhRet,
                   grhCancel, notRegistryVars>>

\* the coordinator: the node of h, which has no "online" and no lock, is deleted
RemoveNode(h) ==
    /\ nChange < MaxChange
    /\ zk[h].node
    /\ zk[h].online = "none"
    /\ ~zk[h].locked
    /\ nChange' = nChange + 1
    /\ zk' = [zk EXCEPT ![h].node = FALSE]
    /\ UNCHANGED <<spawnPc, spawnCancel, grhPc, grhTodo, grhOnline, grhHosts, grhRet,
                   grhCancel, notRegistryVars>>

\* Spawn: waitOnline, one iteration up to its select
SpawnStart(h, fails) ==
    /\ spawnPc[h] = "start"
    /\ spawnPc' = [spawnPc EXCEPT ![h] =
                      IF fails THEN "done"
                      ELSE IF zk[h].online # "none" THEN "check"
                      ELSE "waitOnline"]
    /\ UNCHANGED <<zk, nChange, spawnCancel, grhPc, grhTodo, grhOnline, grhHosts,
                   grhRet, grhCancel, notRegistryVars>>

\* Spawn: one iteration of the loop up to its select.  isRunning tells
\* whether a service instance is found on the host.
SpawnCheck(h, fails, isRunning) ==
    /\ spawnPc[h] = "check"
    /\ spawnPc' = [spawnPc EXCEPT ![h] =
                      IF fails \/ zk[h].online = "none" THEN "done"
                      ELSE IF zk[h].online = "up"
                           THEN IF ~zk[h].locked THEN "offer" ELSE "waitLock"
                      ELSE IF ~isRunning THEN "waitEv"
                      ELSE "outage"]
    /\ UNCHANGED <<zk, nChange, spawnCancel, grhPc, grhTodo, grhOnline, grhHosts,
                   grhRet, grhCancel, notRegistryVars>>

\* Spawn: case <-t.C, and case <-qt.C
SpawnTimer(h) ==
    /\ spawnPc[h] \in {"outage", "quiesce"}
    /\ spawnPc' = [spawnPc EXCEPT ![h] = IF @ = "outage" THEN "recv1" ELSE "recv2"]
    /\ UNCHANGED <<zk, nChange, spawnCancel, grhPc, grhTodo, grhOnline, grhHosts,
                   grhRet, grhCancel, notRegistryVars>>

\* Spawn: case h.isOnline <- struct{}{}, received by the blocked
\* GetRegisteredHosts or by the Spawn goroutine of a host in outage
Signal(h) ==
    /\ spawnPc[h] = "offer"
    /\ \/ /\ grhPc = "blocked"
          /\ grhPc' = "list"
          /\ spawnPc' = [spawnPc EXCEPT ![h] = "check"]
       \/ /\ \E h2 \in Hosts \ {h} :
                /\ spawnPc[h2] \in {"recv1", "recv2"}
                /\ spawnPc' = [spawnPc EXCEPT
                                  ![h] = "check",
                                  ![h2] = IF @ = "recv1" THEN "quiesce" ELSE "check"]
          /\ UNCHANGED grhPc
    /\ UNCHANGED <<zk, nChange, spawnCancel, grhTodo, grhOnline, grhHosts,
                   grhRet, grhCancel, notRegistryVars>>

\* the listener shuts down: the cancel channel of the Spawn goroutines is closed
SpawnCancel ==
    /\ ~spawnCancel
    /\ spawnCancel' = TRUE
    /\ UNCHANGED <<zk, nChange, spawnPc, grhPc, grhTodo, grhOnline, grhHosts,
                   grhRet, grhCancel, notRegistryVars>>

\* Spawn and waitOnline: case <-cancel: return
SpawnReturn(h) ==
    /\ spawnCancel
    /\ spawnPc[h] \in OnlineWatchers
    /\ spawnPc' = [spawnPc EXCEPT ![h] = "done"]
    /\ UNCHANGED <<zk, nChange, spawnCancel, grhPc, grhTodo, grhOnline, grhHosts,
                   grhRet, grhCancel, notRegistryVars>>

\* GetRegisteredHosts returns
GrhReturn(hosts, err) ==
    /\ grhPc' = "idle"
    /\ grhRet' = [hosts |-> hosts, err |-> err]
    /\ grhTodo' = << >>
    /\ grhOnline' = << >>
    /\ grhHosts' = << >>

\* GetRegisteredHosts(cancel) is called: hosts := []host.Host{}
GrhCall ==
    /\ grhPc = "idle"
    /\ grhPc' = "list"
    /\ grhRet' = NoRet
    /\ UNCHANGED <<zk, nChange, spawnPc, spawnCancel, grhTodo, grhOnline, grhHosts,
                   grhCancel, notRegistryVars>>

\* GetCurrentHosts: ch, err := conn.Children(pth)
GrhChildren(fails) ==
    /\ grhPc = "list"
    /\ IF fails
       THEN GrhReturn(<< >>, ErrConn)
       ELSE LET Exists(h) == zk[h].node IN
            /\ grhTodo' = SelectSeq(HostOrder, Exists)
            /\ grhOnline' = << >>
            /\ grhPc' = "online"
            /\ UNCHANGED <<grhHosts, grhRet>>
    /\ UNCHANGED <<zk, nChange, spawnPc, spawnCancel, grhCancel, notRegistryVars>>

\* IsHostOnline: len(ch) > 0 for the children of the node "online"
IsHostOnline(h) == zk[h].online = "up"

\* GetCurrentHosts: one iteration of its loop, or its return
GrhIsHostOnline(fails) ==
    /\ grhPc = "online"
    /\ IF grhTodo = << >>
       THEN /\ ~fails
            /\ grhTodo' = grhOnline
            /\ grhPc' = "exam"
            /\ UNCHANGED <<grhOnline, grhHosts, grhRet>>
       ELSE IF fails
       THEN GrhReturn(<< >>, ErrConn)
       ELSE /\ grhOnline' = IF IsHostOnline(Head(grhTodo))
                            THEN Append(grhOnline, Head(grhTodo))
                            ELSE grhOnline
            /\ grhTodo' = Tail(grhTodo)
            /\ UNCHANGED <<grhPc, grhHosts, grhRet>>
    /\ UNCHANGED <<zk, nChange, spawnPc, spawnCancel, grhCancel, notRegistryVars>>

\* a loop that takes a locked host for an unlocked one
LockIgnored(h) == TRUE

\* len(ch) == 0 for the children of the node "locked"
Unlocked(h) == ~zk[h].locked

\* GetRegisteredHosts: one iteration of the loop over hostids, or the test
\* len(hosts) > 0 after it
GrhExamine(fails) ==
    /\ grhPc = "exam"
    /\ IF grhTodo = << >>
       THEN /\ ~fails
            /\ IF Len(grhHosts) > 0
               THEN GrhReturn(grhHosts, "nil")
               ELSE grhPc' = "select" /\ UNCHANGED <<grhTodo, grhOnline, grhHosts, grhRet>>
       ELSE IF fails
       THEN GrhReturn(<< >>, ErrConn)
       ELSE /\ grhHosts' = IF Unlocked(Head(grhTodo)) /\ zk[Head(grhTodo)].node
                           THEN Append(grhHosts, Head(grhTodo))
                           ELSE grhHosts
            /\ grhTodo' = Tail(grhTodo)
            /\ UNCHANGED <<grhPc, grhOnline, grhRet>>
    /\ UNCHANGED <<zk, nChange, spawnPc, spawnCancel, grhCancel, notRegistryVars>>

\* GetRegisteredHosts enters its select: a case that is ready is taken, and
\* with none ready the call blocks
GrhSelect ==
    /\ grhPc = "select"
    /\ \/ /\ \E h \in Hosts :
                /\ spawnPc[h] = "offer"
                /\ spawnPc' = [spawnPc EXCEPT ![h] = "check"]
          /\ grhPc' = "list"
          /\ UNCHANGED <<grhTodo, grhOnline, grhHosts, grhRet>>
       \/ /\ grhCancel
          /\ GrhReturn(<< >>, ErrShutdown)
          /\ UNCHANGED spawnPc
       \/ /\ ~grhCancel
          /\ \A h \in Hosts : spawnPc[h] # "offer"
          /\ grhPc' = "blocked"
          /\ UNCHANGED <<spawnPc, grhTodo, grhOnline, grhHosts, grhRet>>
    /\ UNCHANGED <<zk, nChange, spawnCancel, grhCancel, notRegistryVars>>

\* the cancel channel of the call is closed; a blocked call is woken by it
GrhCancel ==
    /\ ~grhCancel
    /\ grhCancel' = TRUE
    /\ grhPc' = IF grhPc = "blocked" THEN "shutdown" ELSE grhPc
    /\ UNCHANGED <<zk, nChange, spawnPc, spawnCancel, grhTodo, grhOnline, grhHosts,
                   grhRet, notRegistryVars>>

\* GetRegisteredHosts: case <-cancel: return nil, ErrShutdown
GrhShutdown ==
    /\ grhPc = "shutdown"
    /\ GrhReturn(<< >>, ErrShutdown)
    /\ UNCHANGED <<zk, nChange, spawnPc, spawnCancel, grhCancel, notRegistryVars>>

RegistryNext ==
    \/ \E h \in Hosts, v \in {"none", "empty", "up"} : SetOnline(h, v)
    \/ \E h \in Hosts, b \in BOOLEAN : SetLocked(h, b)
    \/ \E h \in Hosts : RemoveNode(h)
    \/ \E h \in Hosts, fails \in BOOLEAN : SpawnStart(h, fails)
    \/ \E h \in Hosts, fails \in BOOLEAN, isRunning \in BOOLEAN : SpawnCheck(h, fails, isRunning)
    \/ \E h \in Hosts : SpawnTimer(h)
    \/ \E h \in Hosts : Signal(h)
    \/ SpawnCancel
    \/ \E h \in Hosts : SpawnReturn(h)
    \/ GrhCall
    \/ \E fails \in BOOLEAN : GrhChildren(fails)
    \/ \E fails \in BOOLEAN : GrhIsHostOnline(fails)
    \/ \E fails \in BOOLEAN : GrhExamine(fails)
    \/ GrhSelect
    \/ GrhCancel
    \/ GrhShutdown

\* The goroutine that called GetRegisteredHosts runs when it can; the
\* coordinator, the Spawn goroutines and the owner of cancel are under no
\* obligation.
RegistrySpec == Init /\ [][RegistryNext]_vars /\ WF_vars(GrhShutdown)

\* C30: GetRegisteredHosts.  A call never returns a nil error with an empty
\* list.  A host enters onlineHosts only while its node "online" has a child,
\* and enters the list only from onlineHosts and while its node "locked" has
\* no child; the list returned with a nil error is that list.  The call goes
\* to its select only with an empty list, blocks only while no Spawn offers
\* isOnline and cancel is open, and leaves the block either by receiving
\* isOnline from a Spawn goroutine, to list the hosts again, or by the close
\* of cancel, after which it returns ErrShutdown.
C30_GetRegisteredHosts ==
    /\ [](grhRet.err = "nil" => Len(grhRet.hosts) > 0)
    /\ [][/\ \A h \in Range(grhOnline') \ Range(grhOnline) : zk[h].online = "up"
          /\ \A h \in Range(grhHosts') \ Range(grhHosts) :
                /\ grhPc = "exam"
                /\ h = Head(grhTodo)
                /\ ~zk[h].locked
          /\ (grhPc = "online" /\ grhPc' = "exam") => grhTodo' = grhOnline
          /\ (grhRet' # grhRet /\ grhRet'.err = "nil") => grhRet'.hosts = grhHosts
          /\ (grhPc = "exam" /\ grhPc' = "select") => grhHosts = << >>
          /\ (grhPc = "select" /\ grhPc' = "blocked") =>
                (~grhCancel /\ \A h \in Hosts : spawnPc[h] # "offer")
          /\ (grhPc = "blocked" /\ grhPc' # "blocked") =>
                \/ /\ grhPc' = "list"
                   /\ \E h \in Hosts : spawnPc[h] = "offer" /\ spawnPc'[h] = "check"
                \/ /\ grhPc' = "shutdown"
                   /\ ~grhCancel /\ grhCancel'
          /\ (grhPc = "blocked" /\ ~grhCancel /\ grhCancel') => grhPc' = "shutdown"
          /\ (grhPc = "shutdown" /\ grhPc' # "shutdown") =>
                grhRet' = [hosts |-> << >>, err |-> ErrShutdown]]_vars
    /\ (grhPc = "shutdown" ~> grhRet.err = ErrShutdown)

\* C30 witness: a call has returned one host while the other host is online
\* and locked.
C30_Witness ==
    /\ grhRet.err = "nil"
    /\ Len(grhRet.hosts) = 1
    /\ \E h \in Hosts : zk[h].online = "up" /\ zk[h].locked /\ h \notin Range(grhRet.hosts)

\* C31: no send on a closed stream channel.  No reader goroutine of pipe()
\* sends on its byte channel or on its error channel after the deferred
\* function of respond() closed them: the process never ends by that panic.
C31_NoSendOnClosedStream == crashed # "send on closed channel in pipe"

\* C32: no send on the closed queue.  Once Close() has closed wss.send, no
\* producer is in a send on it.
C32_NoSendOnClosedQueue ==
    sendClosed => \A p \in Producers : pending[p] = << >>

\* the last frame written to the transport is the exit-status frame of the
\* child adopted last: Wait was called on that child, and the frame written
\* last is the last one of a Responder that has returned without a panic
ExitWritten ==
    /\ nChild > 0
    /\ waitCount[nChild] > 0
    /\ \E r \in RespIds :
          /\ respPc[r] \in {"closeProc", "clearProc", "done"}
          /\ r \notin panicking
          /\ posted[r] > 0
          /\ lastWrite = [prod |-> r, seq |-> posted[r]]

\* C33: spawn after exit.  A FORK, OPEN or EXEC request read after the
\* exit-status frame of the previous child was written is dispatched by the
\* IDLE branch: it is neither ignored nor sent to tx.
C33_SpawnAfterExit ==
    [][\A q \in Requests :
          (q.Action \in SpawnActions /\ ExitWritten /\ ReaderRead(q)) =>
              /\ proc = NilProc
              /\ readerPc' # "busy"
              /\ ~(readerPc' = "read" /\ pending' = pending /\ nChild' = nChild)]_vars

\* C34: InitDriver.  InitDriver(name, root, args) returns
\* ErrDriverNotSupported when name is not registered; when a driver is
\* initialized at the cleaned root it returns nil, whatever the initializer
\* would have returned, and the driver stays; when the cleaned root is not
\* absolute it returns ErrPathIsNotAbs; when the initializer fails it returns
\* that error; in all these cases nothing is stored.  Otherwise the driver the
\* initializer made is stored under the cleaned root and nil is returned.
C34_InitDriver ==
    [][\A name \in DriverNames, root \in Roots, fails \in BOOLEAN :
          InitDriver(name, root, fails) =>
              IF ~Registered(name)
              THEN volErr' = ErrDriverNotSupported /\ driversByRoot' = driversByRoot
              ELSE IF GetDriver(root).err = "nil"
              THEN volErr' = "nil" /\ driversByRoot' = driversByRoot
              ELSE IF Clean(root)[1] # "/"
              THEN volErr' = ErrPathIsNotAbs /\ driversByRoot' = driversByRoot
              ELSE IF fails
              THEN volErr' = ErrInit /\ driversByRoot' = driversByRoot
              ELSE /\ volErr' = "nil"
                   /\ DOMAIN driversByRoot' = DOMAIN driversByRoot \cup {Clean(root)}
                   /\ driversByRoot'[Clean(root)].fstype = drivers[name].fstype
                   /\ \A other \in DOMAIN driversByRoot :
                          driversByRoot'[other] = driversByRoot[other]]_vars

\* C34 witness: two drivers of different types are initialized, one of them
\* under a root that had to be cleaned, and the last call was rejected.
C34_Witness ==
    /\ DOMAIN driversByRoot = {<<"/", "a">>, <<"/", "b">>}
    /\ driversByRoot[<<"/", "a">>].fstype # driversByRoot[<<"/", "b">>].fstype
    /\ volErr = ErrPathIsNotAbs

\* C35: Resize.  Resize(request) returns ErrDriverNotFound only when no
\* initialized driver manages the volume; when one does, the Resize of a
\* driver that manages it runs and Resize returns its result.
C35_Resize ==
    [][\A managing \in SUBSET CleanRoots, result \in ResizeResults :
          Resize(managing, result) =>
              /\ volErr' = ErrDriverNotFound => managing = {}
              /\ managing # {} => (resized' \in managing /\ volErr' = result)]_vars

\* the steps the acceptor takes without a peer: Accept() returns an error
\* once the listener is closed, and the 50 ms of the retry pass
AcceptorUnblocked == (muxListener = "closed" /\ AcceptErr(FALSE)) \/ AcceptorRetry

\* the scheduler runs both goroutines of the mux
MuxFairSpec == MuxSpec /\ WF_vars(AcceptorUnblocked)

\* C36: termination after Close().  Once Close() was called, the goroutine of
\* loop() and the goroutine of acceptor() have both eventually returned.
C36_BothTerminate ==
    muxClosing ~> (loopPc = "done" /\ acceptorPc = "done")

\* ------------------------------------------------ package proxy: ProxyLoop
\* broker(to, from) copies from `from` to `to`
To(b) == IF b = 1 THEN "client" ELSE "backend"
From(b) == IF b = 1 THEN "backend" ELSE "client"

\* ProxyLoop: event := make(chan int64); go broker(client, backend);
\* go broker(backend, client)
ProxyStart ==
    /\ plPc = "none"
    /\ plPc' = "loop"
    /\ brokerPc' = [b \in Brokers |-> "copy"]
    /\ UNCHANGED <<plI, transferred, brokerWritten, connClosed, quit, notProxyVars>>

\* broker: io.Copy(to, from) returns n as written, at the end of the stream
\* or with an error; with EPIPE, from.Close()
BrokerCopy(b, n, epipe) ==
    /\ brokerPc[b] = "copy"
    /\ brokerWritten' = [brokerWritten EXCEPT ![b] = n]
    /\ connClosed' = IF epipe THEN [connClosed EXCEPT ![From(b)] = TRUE] ELSE connClosed
    /\ brokerPc' = [brokerPc EXCEPT ![b] = "close"]
    /\ UNCHANGED <<plPc, plI, transferred, quit, notProxyVars>>

\* broker: to.Close(); the broker then offers `event <- written`
BrokerClose(b) ==
    /\ brokerPc[b] = "close"
    /\ connClosed' = [connClosed EXCEPT ![To(b)] = TRUE]
    /\ brokerPc' = [brokerPc EXCEPT ![b] = "send"]
    /\ UNCHANGED <<plPc, plI, transferred, brokerWritten, quit, notProxyVars>>

\* ProxyLoop: case written := <-event, the send of broker b; i++.  After the
\* loop, client.Close() and backend.Close() follow.
ProxyRecv(b) ==
    /\ plPc = "loop"
    /\ brokerPc[b] = "send"
    /\ brokerPc' = [brokerPc EXCEPT ![b] = "done"]
    /\ transferred' = transferred + brokerWritten[b]
    /\ plI' = plI + 1
    /\ plPc' = IF plI + 1 < 2 THEN "loop" ELSE "closing"
    /\ UNCHANGED <<brokerWritten, connClosed, quit, notProxyVars>>

\* ProxyLoop: client.Close(); backend.Close() after the loop, and the return
ProxyClose ==
    /\ plPc = "closing"
    /\ connClosed' = [c \in Conns |-> TRUE]
    /\ plPc' = "done"
    /\ UNCHANGED <<plI, transferred, brokerPc, brokerWritten, quit, notProxyVars>>

\* the owner of quit fires it
QuitFire ==
    /\ plPc # "done"
    /\ ~quit
    /\ quit' = TRUE
    /\ UNCHANGED <<plPc, plI, transferred, brokerPc, brokerWritten, connClosed,
                   notProxyVars>>

\* a quit case that returns without the join
JoinedAlways(i) == TRUE

\* the condition of `for ; i < 2; i++` has become false
Joined(i) == i >= 2

\* ProxyLoop: case <-quit: client.Close(); backend.Close(); the join loop is
\* entered, and the return follows it
ProxyQuit ==
    /\ plPc = "loop"
    /\ quit
    /\ connClosed' = [c \in Conns |-> TRUE]
    /\ plPc' = IF Joined(plI) THEN "done" ELSE "join"
    /\ UNCHANGED <<plI, transferred, brokerPc, brokerWritten, quit, notProxyVars>>

\* ProxyLoop: transferred += <-event in the join loop, the send of broker b;
\* i++; return when the loop ends
ProxyJoin(b) ==
    /\ plPc = "join"
    /\ brokerPc[b] = "send"
    /\ brokerPc' = [brokerPc EXCEPT ![b] = "done"]
    /\ transferred' = transferred + brokerWritten[b]
    /\ plI' = plI + 1
    /\ plPc' = IF Joined(plI + 1) THEN "done" ELSE "join"
    /\ UNCHANGED <<brokerWritten, connClosed, quit, notProxyVars>>

ProxyNext ==
    \/ ProxyStart
    \/ \E b \in Brokers, n \in 0..MaxCopy, epipe \in BOOLEAN :
          BrokerCopy(b, n, epipe)
    \/ \E b \in Brokers : BrokerClose(b)
    \/ \E b \in Brokers : ProxyRecv(b)
    \/ ProxyClose
    \/ QuitFire
    \/ ProxyQuit
    \/ \E b \in Brokers : ProxyJoin(b)

ProxySpec == Init /\ [][ProxyNext]_vars

\* C37: ProxyLoop joins its brokers.  When ProxyLoop has returned, both
\* brokers have completed their send on event, ProxyLoop has received two
\* values, and Close() has been called on the client and on the backend
\* connection.
C37_ProxyLoopJoins ==
    plPc = "done" =>
        /\ \A b \in Brokers : brokerPc[b] = "done"
        /\ plI = 2
        /\ transferred = brokerWritten[1] + brokerWritten[2]
        /\ \A c \in Conns : connClosed[c]

\* C37 witness: ProxyLoop has returned through the quit case, which joined
\* both brokers, and both had copied a byte.
C37_Witness ==
    plPc = "done" /\ quit /\ plI = 2 /\ transferred = 2

\* ----------------------------- package service: the outage timers of Spawn
\* A time.Timer of the Go this package was written for: the runtime sends the
\* expiry on the channel C, which has room for one value; Stop and Reset do
\* not take a value out of C.
\* t.Reset(d) at the time now
TimerReset(tm, d, now) == [tm EXCEPT !.armed = TRUE, !.at = now + d]
\* t.Stop()
TimerStop(tm) == [tm EXCEPT !.armed = FALSE, !.at = 0]
\* the runtime, at the time now: a timer that is due sends on its channel
Expire(tm, now) ==
    IF tm.armed /\ tm.at <= now
    THEN [armed |-> FALSE, at |-> 0, c |-> TRUE]
    ELSE tm
\* <-t.C
TimerRecv(tm) == [tm EXCEPT !.c = FALSE]

\* the selects of Spawn that have the case <-ev
OutageSelects == {"online", "waitEv", "outage", "recv1", "quiesce", "recv2"}

\* the Spawn goroutine can take a step without waiting for another party
OutageReady ==
    \/ outPc = "check"
    \/ outPc \in OutageSelects /\ evReady
    \/ outPc = "outage" /\ timerT.c
    \/ outPc = "quiesce" /\ timerQt.c

\* time passes, while the goroutine waits; the timers that are due expire
Tick ==
    /\ clock < MaxTime
    /\ ~OutageReady
    /\ clock' = clock + 1
    /\ changed' = FALSE
    /\ timerT' = Expire(timerT, clock + 1)
    /\ timerQt' = Expire(timerQt, clock + 1)
    /\ UNCHANGED <<hostUp, downSince, evReady, outPc, isOnline, notOutageVars>>

\* the host loses or regains its connection: the children of its node
\* "online" change, which fires the watch
HostChange ==
    /\ ~changed
    /\ changed' = TRUE
    /\ hostUp' = ~hostUp
    /\ downSince' = IF hostUp THEN clock ELSE downSince
    /\ evReady' = TRUE
    /\ UNCHANGED <<clock, outPc, isOnline, timerT, timerQt, notOutageVars>>

\* Spawn: ChildrenW of the node "online", the change of isOnline with
\* t.Reset or t.Stop, the instances of the host, and the entry into one of
\* the selects
OutageCheck(isRunning) ==
    /\ outPc = "check"
    /\ evReady' = FALSE
    /\ IF ~hostUp /\ isOnline
       THEN timerT' = TimerReset(timerT, Timeout, clock) /\ isOnline' = FALSE
       ELSE IF hostUp /\ ~isOnline
       THEN timerT' = TimerStop(timerT) /\ isOnline' = TRUE
       ELSE UNCHANGED <<timerT, isOnline>>
    /\ outPc' = IF hostUp THEN "online"
                ELSE IF ~isRunning THEN "waitEv"
                ELSE "outage"
    /\ UNCHANGED <<clock, hostUp, downSince, changed, timerQt, notOutageVars>>

\* Spawn: case <-ev in any of the selects, and the next turn of the loop
OutageEv ==
    /\ outPc \in OutageSelects
    /\ evReady
    /\ outPc' = "check"
    /\ UNCHANGED <<clock, hostUp, downSince, changed, evReady, isOnline, timerT,
                   timerQt, notOutageVars>>

\* Spawn, online: the send on h.isOnline is received, or lockev fires
OutageOffer ==
    /\ outPc = "online"
    /\ outPc' = "check"
    /\ UNCHANGED <<clock, hostUp, downSince, changed, evReady, isOnline, timerT,
                   timerQt, notOutageVars>>

\* Spawn, outage: case <-t.C
OutageTimeout ==
    /\ outPc = "outage"
    /\ timerT.c
    /\ timerT' = TimerRecv(timerT)
    /\ outPc' = "recv1"
    /\ UNCHANGED <<clock, hostUp, downSince, changed, evReady, isOnline, timerQt,
                   notOutageVars>>

\* Spawn: case <-h.isOnline, sent by the goroutine of a host that is online;
\* qt.Reset(h.qtime)
OutageOnline ==
    /\ outPc = "recv1"
    /\ timerQt' = TimerReset(timerQt, QTime, clock)
    /\ outPc' = "quiesce"
    /\ UNCHANGED <<clock, hostUp, downSince, changed, evReady, isOnline, timerT,
                   notOutageVars>>

\* Spawn: case <-qt.C
OutageQuiesced ==
    /\ outPc = "quiesce"
    /\ timerQt.c
    /\ timerQt' = TimerRecv(timerQt)
    /\ outPc' = "recv2"
    /\ UNCHANGED <<clock, hostUp, downSince, changed, evReady, isOnline, timerT,
                   notOutageVars>>

\* Spawn: the second case <-h.isOnline; removeInstancesOnHost, and the next
\* turn of the loop
OutageRemove ==
    /\ outPc = "recv2"
    /\ outPc' = "check"
    /\ UNCHANGED <<clock, hostUp, downSince, changed, evReady, isOnline, timerT,
                   timerQt, notOutageVars>>

OutageNext ==
    \/ Tick
    \/ HostChange
    \/ \E isRunning \in BOOLEAN : OutageCheck(isRunning)
    \/ OutageEv
    \/ OutageOffer
    \/ OutageTimeout
    \/ OutageOnline
    \/ OutageQuiesced
    \/ OutageRemove

OutageSpec == Init /\ [][OutageNext]_vars

\* C38: the wait before the removal.  The instances of a host are removed
\* for an outage only when at least the connection timeout plus the quiesce
\* time have passed since the host went offline.
C38_OutageWait ==
    [][OutageRemove => clock - downSince >= Timeout + QTime]_vars

\* ----------------------------------------------- package node: ServiceCache
Digits == <<"0", "1", "2", "3", "4", "5", "6", "7", "8", "9">>

\* %d of a number that is not negative
RECURSIVE Itoa(_)
Itoa(n) ==
    IF n < 10 THEN <<Digits[n + 1]>>
    ELSE Itoa(n \div 10) \o <<Digits[(n % 10) + 1]>>

\* a key that leaves the instance out
KeyOfService(serviceID, instanceID) == serviceID

\* key := fmt.Sprintf("%s-%d", serviceID, instanceID)
Key(serviceID, instanceID) == serviceID \o <<"-">> \o Itoa(instanceID)

Keys == {Key(p[1], p[2]) : p \in Pairs}

ErrConnect == "could not connect to the master"
ErrGet == "failed to get service"
\* masterClient.GetEvaluatedService: an error, or the service as the master
\* defines it at the time of the call
MasterAnswers == [err : {"nil", ErrGet}, version : 1..MaxVersion]

\* what the master returns for an instance of a service
Evaluated(serviceID, instanceID, version) ==
    [Service |-> <<serviceID, instanceID, version>>,
     TenantID |-> "tenant",
     ServiceNamePath |-> <<"/">> \o serviceID]

\* GetEvaluatedService(serviceID, instanceID); connects tells whether
\* getMasterClient succeeds, answer is what the master returns
GetEvaluatedService(serviceID, instanceID, connects, answer) ==
    /\ IF Key(serviceID, instanceID) \in DOMAIN cache
       THEN /\ scRet' = [item |-> cache[Key(serviceID, instanceID)], err |-> "nil"]
            /\ contacted' = FALSE
            /\ UNCHANGED <<cache, lastFetch>>
       ELSE /\ contacted' = TRUE
            /\ IF ~connects
               THEN /\ scRet' = [item |-> NoItem, err |-> ErrConnect]
                    /\ UNCHANGED <<cache, lastFetch>>
               ELSE IF answer.err # "nil"
               THEN /\ scRet' = [item |-> NoItem, err |-> answer.err]
                    /\ UNCHANGED <<cache, lastFetch>>
               ELSE LET item == Evaluated(serviceID, instanceID, answer.version) IN
                    /\ cache' = Put(cache, Key(serviceID, instanceID), item)
                    /\ lastFetch' = [lastFetch EXCEPT ![<<serviceID, instanceID>>] = item]
                    /\ scRet' = [item |-> item, err |-> "nil"]
    /\ UNCHANGED notCacheVars

\* Invalidate(serviceID, instanceID)
Invalidate(serviceID, instanceID) ==
    /\ cache' = Delete(cache, Key(serviceID, instanceID))
    /\ lastFetch' = [lastFetch EXCEPT ![<<serviceID, instanceID>>] = NoItem]
    /\ UNCHANGED <<scRet, contacted, notCacheVars>>

\* the LRU cache drops an entry: its time to live (2 minutes) has passed, or
\* it is the oldest of more than 60
CacheExpire(key) ==
    /\ key \in DOMAIN cache
    /\ cache' = Delete(cache, key)
    /\ UNCHANGED <<scRet, contacted, lastFetch, notCacheVars>>

CacheNext ==
    \/ \E serviceID \in ServiceIDs, instanceID \in InstanceIDs, connects \in BOOLEAN,
          answer \in MasterAnswers :
          GetEvaluatedService(serviceID, instanceID, connects, answer)
    \/ \E serviceID \in ServiceIDs, instanceID \in InstanceIDs :
          Invalidate(serviceID, instanceID)
    \/ \E key \in Keys : CacheExpire(key)

CacheSpec == Init /\ [][CacheNext]_vars

====
